---- MODULE Spec2Model ----
(***************************************************************************)
(* Model of the PDF backend (api/create-pdf.js and its earlier variants):  *)
(* the line wrapper, the outline parsers, the page cursor and the block    *)
(* renderers of the request handlers.                                      *)
(*                                                                         *)
(* Texts are character strings.  TLA+ strings are ASCII, so the three      *)
(* non-ASCII characters the sources use are written                        *)
(*     "~"  for the en dash  (U+2013)                                      *)
(*     "*"  for the bullet   (U+2022)                                      *)
(*     "Ae" for the A umlaut of "Aengste"                                  *)
(*     "ue", "oe" for the umlauts of "fuer" and "persoenliche"             *)
(* and none of the inputs uses "~" or "*" for anything else.               *)
(***************************************************************************)
EXTENDS Integers, Sequences, FiniteSets, TLC

VARIABLES
  pc,      \* position of the running call or handler
  arg,     \* argument record of the function under call
  ret,     \* values returned so far by the function under call
  gpt,     \* request payload: [title, sections]
  doc,     \* number of pages of the content document
  page,    \* the handler's variable `page` (index of a page of doc)
  y,       \* the handler's variable `y` (vertical cursor)
  secIdx,  \* number of sections the handler's loop has consumed
  log      \* every page.drawText call so far, in call order

vars == <<pc, arg, ret, gpt, doc, page, y, secIdx, log>>
fnVars == <<arg, ret>>
renderVars == <<gpt, doc, page, y, secIdx, log>>

(***************************************************************************)
(* Bounds of the model.                                                    *)
(***************************************************************************)
MaxTextLen == 5      \* longest text handed to wrapLines in SpecWrap

(***************************************************************************)
(* Loops.  A loop  for (i = lo; i <= hi; i++) st = Step(st, i)  is written *)
(* as an operator over the range lo..hi that runs the left half of the     *)
(* range first and the right half from the state the left half ends in:    *)
(* the state the loop ends in, without nesting the evaluation as deep as   *)
(* the loop is long.  Mid is where the range is halved.                    *)
(***************************************************************************)
Mid(lo, hi) == (lo + hi) \div 2

(***************************************************************************)
(* Strings.                                                                *)
(***************************************************************************)
\* s.slice(a - 1, b): the characters at positions a..b that s has
Slice(s, a, b) ==
  LET lo == IF a < 1 THEN 1 ELSE a
      hi == IF b > Len(s) THEN Len(s) ELSE b
  IN  IF lo > hi THEN "" ELSE SubSeq(s, lo, hi)

\* The character at position i ("" outside s)
Ch(s, i) == Slice(s, i, i)

\* JavaScript \s, restricted to the two whitespace characters of the inputs.
IsWs(c) == c \in {" ", "\n"}

IsDigit(c) == c \in {"0", "1", "2", "3", "4", "5", "6", "7", "8", "9"}

RECURSIVE StringsUpTo(_, _)
StringsUpTo(alphabet, n) ==
  IF n = 0 THEN {""}
  ELSE LET S == StringsUpTo(alphabet, n - 1)
       IN  S \cup {s \o c : s \in S, c \in alphabet}

\* One character of a split: a separator closes the piece being read, unless
\* runs of separators count as one and the character before it is one too.
SplitStep(st, s, seps, runs, i) ==
  IF Ch(s, i) \in seps
  THEN IF runs /\ i > 1 /\ Ch(s, i - 1) \in seps THEN st
       ELSE [cur |-> "", acc |-> Append(st.acc, st.cur)]
  ELSE [st EXCEPT !.cur = @ \o Ch(s, i)]

RECURSIVE SplitLoop(_, _, _, _, _, _)
SplitLoop(st, s, seps, runs, lo, hi) ==
  IF lo > hi THEN st
  ELSE IF lo = hi THEN SplitStep(st, s, seps, runs, lo)
  ELSE LET left == SplitLoop(st, s, seps, runs, lo, Mid(lo, hi))
       IN  IF left = left THEN SplitLoop(left, s, seps, runs, Mid(lo, hi) + 1, hi)
           ELSE st

\* The pieces of s between the separators.
SplitOn(s, seps, runs) ==
  LET Pieces(end) == Append(end.acc, end.cur)
  IN  Pieces(SplitLoop([cur |-> "", acc |-> <<>>], s, seps, runs, 1, Len(s)))

\* A split on single spaces only: what text.split(" ") would return.
SplitOnSpaces(s) == SplitOn(s, {" "}, FALSE)

\* text.split(/\s+/)
SplitWs(s) == SplitOn(s, {" ", "\n"}, TRUE)

\* s.split("\n") (the texts hold no carriage return)
SplitLines(s) == SplitOn(s, {"\n"}, FALSE)

\* strs.slice(lo - 1, hi).join(sep)
RECURSIVE JoinRange(_, _, _, _)
JoinRange(strs, sep, lo, hi) ==
  IF lo > hi THEN ""
  ELSE IF lo = hi THEN strs[lo]
  ELSE JoinRange(strs, sep, lo, Mid(lo, hi)) \o sep
       \o JoinRange(strs, sep, Mid(lo, hi) + 1, hi)

\* strs.join(sep)
JoinWith(strs, sep) == JoinRange(strs, sep, 1, Len(strs))

\* n copies of s, joined by sep
Repeat(s, sep, n) == JoinWith([k \in 1..n |-> s], sep)

Min(S) == CHOOSE m \in S : \A n \in S : m <= n

DigitChars == <<"0", "1", "2", "3", "4", "5", "6", "7", "8", "9">>

\* String(n) of a natural number
RECURSIVE NatToStr(_)
NatToStr(n) ==
  IF n < 10 THEN DigitChars[n + 1]
  ELSE NatToStr(n \div 10) \o DigitChars[(n % 10) + 1]

UpperChars == <<"A", "B", "C", "D", "E", "F", "G", "H", "I", "J", "K", "L", "M",
                "N", "O", "P", "Q", "R", "S", "T", "U", "V", "W", "X", "Y", "Z">>
LowerChars == <<"a", "b", "c", "d", "e", "f", "g", "h", "i", "j", "k", "l", "m",
                "n", "o", "p", "q", "r", "s", "t", "u", "v", "w", "x", "y", "z">>

LowerChar(c) ==
  IF \E k \in 1..26 : UpperChars[k] = c
  THEN LowerChars[CHOOSE k \in 1..26 : UpperChars[k] = c]
  ELSE c

RECURSIVE LowerRange(_, _, _)
LowerRange(s, lo, hi) ==
  IF lo > hi THEN ""
  ELSE IF lo = hi THEN LowerChar(Ch(s, lo))
  ELSE LowerRange(s, lo, Mid(lo, hi)) \o LowerRange(s, Mid(lo, hi) + 1, hi)

\* s.toLowerCase()
toLowerCase(s) == LowerRange(s, 1, Len(s))

\* Position of the first character at or after i that is not whitespace
\* (Len(s) + 1 when there is none): where a greedy \s* started at i ends.
RECURSIVE SkipWs(_, _)
SkipWs(s, i) ==
  IF i <= Len(s) /\ IsWs(Ch(s, i)) THEN SkipWs(s, i + 1) ELSE i

\* The same for a greedy \d*
RECURSIVE SkipDigits(_, _)
SkipDigits(s, i) ==
  IF i <= Len(s) /\ IsDigit(Ch(s, i)) THEN SkipDigits(s, i + 1) ELSE i

\* Position of the first newline at or after i (Len(s) + 1 when there is none).
EndOfLine(s, i) == Min({j \in i..Len(s) : Ch(s, j) = "\n"} \cup {Len(s) + 1})

RECURSIVE SkipWsBack(_, _)
SkipWsBack(s, i) ==
  IF i >= 1 /\ IsWs(Ch(s, i)) THEN SkipWsBack(s, i - 1) ELSE i

\* s.trim()
Trim(s) == Slice(s, SkipWs(s, 1), SkipWsBack(s, Len(s)))

\* lines.map(l => l.trim())
MapTrim(lines) == [k \in 1..Len(lines) |-> Trim(lines[k])]

\* s.slice(i - 1): the rest of s from position i
From(s, i) == Slice(s, i, Len(s))

\* Whether sub occurs in s at position i
OccursAt(s, i, sub) == i >= 1 /\ Slice(s, i, i + Len(sub) - 1) = sub

\* The same, ignoring case (the i flag)
OccursAtI(s, i, sub) ==
  i >= 1 /\ toLowerCase(Slice(s, i, i + Len(sub) - 1)) = toLowerCase(sub)

Contains(s, sub) == \E i \in 1..Len(s) : OccursAt(s, i, sub)

\* ^ under the m flag
IsLineStart(s, i) == i = 1 \/ Ch(s, i - 1) = "\n"

(***************************************************************************)
(* Text Measurer: font.widthOfTextAtSize(text, size) of the embedded font. *)
(* A font is its table of glyph advances per unit of size; the width of a  *)
(* text is the sum of its glyphs' advances times the size.                 *)
(***************************************************************************)
GlyphAdvance(font, c) ==
  IF c = "M" THEN font.wide
  ELSE IF c \in {" ", "\n"} THEN font.space
  ELSE font.narrow

\* Sum of the advances of the glyphs at positions lo..hi of text
RECURSIVE AdvanceOfRange(_, _, _, _)
AdvanceOfRange(font, text, lo, hi) ==
  IF lo > hi THEN 0
  ELSE IF lo = hi THEN GlyphAdvance(font, Ch(text, lo))
  ELSE AdvanceOfRange(font, text, lo, Mid(lo, hi))
       + AdvanceOfRange(font, text, Mid(lo, hi) + 1, hi)

widthOfTextAtSize(font, text, size) == size * AdvanceOfRange(font, text, 1, Len(text))

\* The regular font of the renders: "M" is a wide glyph, every other one narrow.
Regular == [wide |-> 20, narrow |-> 1, space |-> 1]

(***************************************************************************)
(* Line Wrapper.                                                           *)
(***************************************************************************)
\* A flush test that measures the buffer instead of the candidate line.
wrapOverflowsMeasuresBuffer(test, line, font, size, maxWidth) ==
  widthOfTextAtSize(font, line, size) > maxWidth /\ line # ""

\* if (width > maxWidth && line)
wrapOverflows(test, line, font, size, maxWidth) ==
  widthOfTextAtSize(font, test, size) > maxWidth /\ line # ""

\* A flush that starts the next line empty: the token that overflowed is lost.
wrapFlushDropsWord(line, w) == ""

\* lines.push(line); line = w
wrapFlush(line, w) == w

\* Loop body of the wrapper for the word w
wrapStep(st, w, font, size, maxWidth) ==
  LET Place(test) ==
        IF wrapOverflows(test, st.line, font, size, maxWidth)
        THEN [line |-> wrapFlush(st.line, w), lines |-> Append(st.lines, st.line)]
        ELSE [st EXCEPT !.line = test]
  IN  Place(IF st.line # "" THEN st.line \o " " \o w ELSE w)

RECURSIVE wrapLoop(_, _, _, _, _, _, _)
wrapLoop(st, words, font, size, maxWidth, lo, hi) ==
  IF lo > hi THEN st
  ELSE IF lo = hi THEN wrapStep(st, words[lo], font, size, maxWidth)
  ELSE LET left == wrapLoop(st, words, font, size, maxWidth, lo, Mid(lo, hi))
       IN  IF left = left
           THEN wrapLoop(left, words, font, size, maxWidth, Mid(lo, hi) + 1, hi)
           ELSE st

\* for (const w of words) { ... }; if (line) lines.push(line)
wrapWords(words, font, size, maxWidth) ==
  LET Lines(end) == IF end.line # "" THEN Append(end.lines, end.line) ELSE end.lines
  IN  Lines(wrapLoop([line |-> "", lines |-> <<>>], words, font, size, maxWidth,
                     1, Len(words)))

wrapLines(text, font, size, maxWidth) ==
  wrapWords(SplitWs(text), font, size, maxWidth)

\* The second handler's copy of the wrapper.
wrap(text, font, size, maxWidth) ==
  wrapWords(SplitWs(text), font, size, maxWidth)

(***************************************************************************)
(* SpecWrap: wrapLines (or the second handler's copy, wrap) applied to     *)
(* every text of at most MaxTextLen characters over WrapAlphabet, then     *)
(* applied again to its own output joined with newlines.                   *)
(***************************************************************************)
WrapAlphabet == {"a", "M", " ", "\n"}
WrapSize == 12
WrapWidths == {0, 12, 36, 60, 240, 264}

CallWrapper(fn, text, font, size, maxWidth) ==
  IF fn = "wrap" THEN wrap(text, font, size, maxWidth)
  ELSE wrapLines(text, font, size, maxWidth)

IdleRender ==
  /\ gpt = [title |-> "", sections |-> <<>>]
  /\ doc = 0 /\ page = 0 /\ y = 0 /\ secIdx = 0 /\ log = <<>>

InitWrap ==
  /\ pc = "start"
  /\ arg \in [fn : {"wrapLines", "wrap"},
              text : StringsUpTo(WrapAlphabet, MaxTextLen),
              maxWidth : WrapWidths]
  /\ ret = <<>>
  /\ IdleRender

CallWrapLines ==
  /\ pc = "start"
  /\ ret' = <<CallWrapper(arg.fn, arg.text, Regular, WrapSize, arg.maxWidth)>>
  /\ pc' = "wrapped"
  /\ UNCHANGED <<arg, renderVars>>

ReWrap ==
  /\ pc = "wrapped"
  /\ ret' = Append(ret, CallWrapper(arg.fn, JoinWith(ret[1], "\n"), Regular,
                                    WrapSize, arg.maxWidth))
  /\ pc' = "rewrapped"
  /\ UNCHANGED <<arg, renderVars>>

NextWrap == CallWrapLines \/ ReWrap

SpecWrap == InitWrap /\ [][NextWrap]_vars

LineFits(line, maxWidth) == widthOfTextAtSize(Regular, line, WrapSize) <= maxWidth

IsSingleToken(line) ==
  Len(line) >= 1 /\ \A i \in 1..Len(line) : ~IsWs(Ch(line, i))

Tokens(text) == SelectSeq(SplitWs(text), LAMBDA w : w # "")

RECURSIVE TokensOfRange(_, _, _)
TokensOfRange(lines, lo, hi) ==
  IF lo > hi THEN <<>>
  ELSE IF lo = hi THEN Tokens(lines[lo])
  ELSE TokensOfRange(lines, lo, Mid(lo, hi)) \o TokensOfRange(lines, Mid(lo, hi) + 1, hi)

TokensOfLines(lines) == TokensOfRange(lines, 1, Len(lines))

\* C5: every line wrapLines/wrap returns either measures at most maxWidth or is
\* exactly one whitespace-free token.
C5_LineFitsOrSingleToken ==
  pc \in {"wrapped", "rewrapped"} =>
    \A k \in 1..Len(ret[1]) :
      LineFits(ret[1][k], arg.maxWidth) \/ IsSingleToken(ret[1][k])

\* A wrap that returned a fitting line of two tokens and a single token that is
\* wider than maxWidth.
C5_Witness ==
  /\ pc = "wrapped"
  /\ \E k \in 1..Len(ret[1]) :
       Len(Tokens(ret[1][k])) >= 2 /\ LineFits(ret[1][k], arg.maxWidth)
  /\ \E k \in 1..Len(ret[1]) :
       IsSingleToken(ret[1][k]) /\ ~LineFits(ret[1][k], arg.maxWidth)

\* C6: wrapping the newline-joined output again, with the same font, size and
\* maxWidth, returns the same sequence of lines.
C6_WrapIdempotent ==
  (pc = "rewrapped" /\ arg.fn = "wrapLines") => ret[2] = ret[1]

\* A re-wrap of an output of at least two lines, one of them of several tokens.
C6_Witness ==
  /\ pc = "rewrapped" /\ arg.fn = "wrapLines"
  /\ Len(ret[1]) >= 2
  /\ \E k \in 1..Len(ret[1]) : Len(Tokens(ret[1][k])) >= 2

\* C7: the words of the returned lines, read in order, are exactly the non-empty
\* whitespace-separated tokens of the input; so a text without tokens gives no
\* line and a token wider than maxWidth is a line of its own.
C7_TokensPreserved ==
  pc \in {"wrapped", "rewrapped"} =>
    /\ TokensOfLines(ret[1]) = Tokens(arg.text)
    /\ (Tokens(arg.text) = <<>> => ret[1] = <<>>)
    /\ \A i \in 1..Len(Tokens(arg.text)) :
         ~LineFits(Tokens(arg.text)[i], arg.maxWidth) =>
           \E k \in 1..Len(ret[1]) : ret[1][k] = Tokens(arg.text)[i]

\* A wrap of a text with leading whitespace, a token wider than maxWidth and at
\* least two returned lines.
C7_Witness ==
  /\ pc = "wrapped"
  /\ Len(arg.text) >= 1 /\ IsWs(Ch(arg.text, 1))
  /\ Len(ret[1]) >= 2
  /\ \E i \in 1..Len(Tokens(arg.text)) : ~LineFits(Tokens(arg.text)[i], arg.maxWidth)

(***************************************************************************)
(* First handler of api/create-pdf.js: page cursor and block renderers.    *)
(* A cursor c is [doc, page, y, log]: the number of pages of the document, *)
(* the page being drawn on, the vertical offset and the drawText calls     *)
(* made so far.                                                            *)
(***************************************************************************)
PAGE == [width |-> 595, height |-> 842]
MARGIN == 56

\* doc.addPage([PAGE.width, PAGE.height])
addPage(c) == [c EXCEPT !.doc = c.doc + 1, !.page = c.doc + 1]

\* page.drawText(text, {x, y, size, font})
drawText(c, text, x, size, font) ==
  [c EXCEPT !.log = Append(@, [page |-> c.page, x |-> x, y |-> c.y, size |-> size,
                               font |-> font, text |-> text])]

\* A cursor check against the page edge instead of the bottom margin.
ensureSpaceToPageEdge(c, needed) ==
  IF c.y - needed < 0
  THEN [addPage(c) EXCEPT !.y = PAGE.height - MARGIN]
  ELSE c

ensureSpace(c, needed) ==
  IF c.y - needed < MARGIN
  THEN [addPage(c) EXCEPT !.y = PAGE.height - MARGIN]
  ELSE c

drawHeading(c, text, size, after) ==
  LET c1 == ensureSpace(c, size)
      c2 == drawText(c1, text, MARGIN, size, "bold")
  IN  [c2 EXCEPT !.y = @ - (size + after)]

\* A sub-heading that draws nothing and leaves the cursor where it is.
drawSubHeadingSkipped(c, text, size, after) == c

drawSubHeading(c, text, size, after) ==
  LET c1 == ensureSpace(c, size)
      c2 == drawText(c1, text, MARGIN, size, "bold")
  IN  [c2 EXCEPT !.y = @ - (size + after)]

drawLabel(c, text, size, after) ==
  LET c1 == ensureSpace(c, size)
      c2 == drawText(c1, text, MARGIN, size, "bold")
  IN  [c2 EXCEPT !.y = @ - (size + after)]

\* ensureSpace; drawText(ln); y -= lineHeight
drawLine(c, ln, x, size, lineHeight) ==
  LET Moved(c2) == [c2 EXCEPT !.y = @ - lineHeight]
  IN  Moved(drawText(ensureSpace(c, lineHeight), ln, x, size, "regular"))

\* for (const ln of lines) { ensureSpace; drawText; y -= lineHeight }
RECURSIVE drawLinesAt(_, _, _, _, _, _, _)
drawLinesAt(c, lines, x, size, lineHeight, lo, hi) ==
  IF lo > hi THEN c
  ELSE IF lo = hi THEN drawLine(c, lines[lo], x, size, lineHeight)
  ELSE LET left == drawLinesAt(c, lines, x, size, lineHeight, lo, Mid(lo, hi))
       IN  IF left = left
           THEN drawLinesAt(left, lines, x, size, lineHeight, Mid(lo, hi) + 1, hi)
           ELSE c

drawParagraph(c, text, size, lineGap, after, maxWidth) ==
  LET After(c1) == [c1 EXCEPT !.y = @ - after]
      Lines(lines) == drawLinesAt(c, lines, MARGIN, size, size + lineGap, 1, Len(lines))
  IN  After(Lines(wrapLines(text, Regular, size, maxWidth)))

\* One item of a numbered list: the number and the first line on one row, the
\* other lines under the first one.
drawNumberedItem(c, idx, raw, size, lineHeight, maxWidth, numberIndent) ==
  LET Moved(c3) == [c3 EXCEPT !.y = @ - lineHeight]
      Item(prefix, lines) ==
        drawLinesAt(
          Moved(drawText(drawText(ensureSpace(c, lineHeight), prefix, MARGIN, size, "bold"),
                         IF lines = <<>> THEN "" ELSE lines[1],
                         MARGIN + numberIndent, size, "regular")),
          lines, MARGIN + numberIndent, size, lineHeight, 2, Len(lines))
  IN  Item(NatToStr(idx) \o ". ", wrapLines(raw, Regular, size, maxWidth - numberIndent))

RECURSIVE drawNumberedItems(_, _, _, _, _, _, _, _)
drawNumberedItems(c, items, size, lineHeight, maxWidth, numberIndent, lo, hi) ==
  IF lo > hi THEN c
  ELSE IF lo = hi
  THEN drawNumberedItem(c, lo, items[lo], size, lineHeight, maxWidth, numberIndent)
  ELSE LET left == drawNumberedItems(c, items, size, lineHeight, maxWidth, numberIndent,
                                     lo, Mid(lo, hi))
       IN  IF left = left
           THEN drawNumberedItems(left, items, size, lineHeight, maxWidth, numberIndent,
                                  Mid(lo, hi) + 1, hi)
           ELSE c

drawNumberedList(c, items, size, lineGap, after, maxWidth, numberIndent) ==
  LET After(c5) == [c5 EXCEPT !.y = @ - after]
  IN  After(drawNumberedItems(c, items, size, size + lineGap, maxWidth, numberIndent,
                              1, Len(items)))

\* The bullets b as drawBullets writes them: `~ ${b}`
BulletTexts(bullets) == [k \in 1..Len(bullets) |-> "~ " \o bullets[k]]

drawBullets(c, bullets, size, lineGap, after, bulletIndent) ==
  LET After(c3) == [c3 EXCEPT !.y = @ - after]
  IN  After(drawLinesAt(c, BulletTexts(bullets), MARGIN + bulletIndent, size,
                        size + lineGap, 1, Len(bullets)))

(***************************************************************************)
(* First handler: parsing of the trigger and benefits texts.               *)
(***************************************************************************)
\* Where a match of ^\s*<label>\s*: that starts at i ends (0: no match at i).
LabelMatchEnd(s, i, label) ==
  LET Colon(k) == IF k <= Len(s) /\ Ch(s, k) = ":" THEN k ELSE 0
      Label(j) == IF OccursAtI(s, j, label) THEN Colon(SkipWs(s, j + Len(label)))
                  ELSE 0
  IN  Label(SkipWs(s, i))

\* fullText.match(new RegExp(`^\\s*${label}\\s*:`, 'mi')): the leftmost match
LabelMatch(s, label) ==
  LET At(i) == [found |-> TRUE, from |-> i, to |-> LabelMatchEnd(s, i, label)]
      Leftmost(starts) ==
        IF starts = {} THEN [found |-> FALSE, from |-> 0, to |-> 0]
        ELSE At(Min(starts))
  IN  Leftmost({i \in 1..Len(s) : IsLineStart(s, i) /\ LabelMatchEnd(s, i, label) # 0})

getLabeledBlock(fullText, label, nextLabels) ==
  LET EndIdx(startIdx, rest) ==
        Min({startIdx + m.from - 1 :
               m \in {n \in {LabelMatch(rest, nextLabels[k]) : k \in DOMAIN nextLabels} :
                        n.found}}
            \cup {Len(fullText)})
      Block(mStart) ==
        IF ~mStart.found THEN ""
        ELSE Trim(Slice(fullText, mStart.to + 1,
                        EndIdx(mStart.to, From(fullText, mStart.to + 1))))
  IN  Block(LabelMatch(fullText, label))

\* A match of /^\s*\d+\.\s+(.*)$/m that starts at i: the captured text and the
\* position after the match.
NumberedMatchAt(s, i) ==
  LET NoMatch == [found |-> FALSE, text |-> "", next |-> 0]
      Capture(l, e) == [found |-> TRUE, text |-> Slice(s, l, e - 1), next |-> e]
      Gap(k, l) == IF l > k + 1 THEN Capture(l, EndOfLine(s, l)) ELSE NoMatch
      Dot(j, k) == IF k > j /\ k <= Len(s) /\ Ch(s, k) = "."
                   THEN Gap(k, SkipWs(s, k + 1)) ELSE NoMatch
      Digits(j) == Dot(j, SkipDigits(s, j))
  IN  IF IsLineStart(s, i) THEN Digits(SkipWs(s, i)) ELSE NoMatch

\* re.exec(block) tried at position i: a match there is taken when i is at or
\* after the end of the match before it.
execStep(st, block, i) ==
  LET Push(out, line) == IF line # "" THEN Append(out, line) ELSE out
      Exec(m) ==
        IF i >= st.lastIndex /\ m.found
        THEN [lastIndex |-> m.next, out |-> Push(st.out, Trim(m.text))]
        ELSE st
  IN  Exec(NumberedMatchAt(block, i))

RECURSIVE execLoop(_, _, _, _)
execLoop(st, block, lo, hi) ==
  IF lo > hi THEN st
  ELSE IF lo = hi THEN execStep(st, block, lo)
  ELSE LET left == execLoop(st, block, lo, Mid(lo, hi))
       IN  IF left = left THEN execLoop(left, block, Mid(lo, hi) + 1, hi) ELSE st

\* while ((m = re.exec(block)) !== null) { ... }: each match is the leftmost
\* one that starts at or after the end of the match before it.
parseNumberedItems(block) ==
  execLoop([lastIndex |-> 1, out |-> <<>>], block, 1, Len(block)).out

\* Where a match of /^\d+\.\s+/ ends in line (0: no match).
NumberPrefixEnd(line) ==
  LET Gap(k, l) == IF l > k + 1 THEN l ELSE 0
      Dot(k) == IF k > 1 /\ k <= Len(line) /\ Ch(line, k) = "."
                THEN Gap(k, SkipWs(line, k + 1)) ELSE 0
  IN  Dot(SkipDigits(line, 1))

\* /^\d+\.\s+/.test(line)
IsNumberedLine(line) == NumberPrefixEnd(line) # 0

\* line.replace(/^\d+\.\s+/, "")
StripNumber(line) ==
  IF IsNumberedLine(line) THEN From(line, NumberPrefixEnd(line)) ELSE line

\* /^(?:-|–|•)\s+/.test(line)
IsBulletLine(line) ==
  Len(line) >= 2 /\ Ch(line, 1) \in {"-", "~", "*"} /\ SkipWs(line, 2) > 2

\* line.replace(/^(?:-|–|•)\s+/, "")
StripBullet(line) == IF IsBulletLine(line) THEN From(line, SkipWs(line, 2)) ELSE line

\* The loop body without its last branch: a line that is neither numbered
\* nor a bullet is dropped.
titleStepDropsLine(st, line) ==
  LET OrNew(cur) == IF cur = <<>> THEN [title |-> "", bullets |-> <<>>] ELSE cur[1]
      AddBullet(c0, b) == [c0 EXCEPT !.bullets = Append(@, b)]
  IN  IF IsNumberedLine(line)
      THEN [cur |-> <<[title |-> Trim(StripNumber(line)), bullets |-> <<>>]>>,
            groups |-> st.groups \o st.cur]
      ELSE IF IsBulletLine(line)
      THEN [st EXCEPT !.cur = <<AddBullet(OrNew(st.cur), Trim(StripBullet(line)))>>]
      ELSE st

\* Loop body of parseTitleWithBullets; cur is <<>> (null) or <<current>>.
titleStep(st, line) ==
  LET OrNew(cur) == IF cur = <<>> THEN [title |-> "", bullets |-> <<>>] ELSE cur[1]
      AddBullet(c0, b) == [c0 EXCEPT !.bullets = Append(@, b)]
      AddToTitle(c0) ==
        [c0 EXCEPT !.title = (IF @ # "" THEN @ \o " " ELSE "") \o line]
  IN  IF IsNumberedLine(line)
      THEN [cur |-> <<[title |-> Trim(StripNumber(line)), bullets |-> <<>>]>>,
            groups |-> st.groups \o st.cur]
      ELSE IF IsBulletLine(line)
      THEN [st EXCEPT !.cur = <<AddBullet(OrNew(st.cur), Trim(StripBullet(line)))>>]
      ELSE IF line # ""
      THEN [st EXCEPT !.cur = <<AddToTitle(OrNew(st.cur))>>]
      ELSE st

RECURSIVE titleLoop(_, _, _, _)
titleLoop(st, lines, lo, hi) ==
  IF lo > hi THEN st
  ELSE IF lo = hi THEN titleStep(st, lines[lo])
  ELSE LET left == titleLoop(st, lines, lo, Mid(lo, hi))
       IN  IF left = left THEN titleLoop(left, lines, Mid(lo, hi) + 1, hi) ELSE st

parseTitleWithBullets(block) ==
  LET Groups(end) == end.groups \o end.cur
      Lines(lines) == titleLoop([cur |-> <<>>, groups |-> <<>>], lines, 1, Len(lines))
  IN  Groups(Lines(MapTrim(SplitLines(block))))

(***************************************************************************)
(* First handler: renderGptContent.                                        *)
(***************************************************************************)
MaxSections == 2     \* most sections of a payload
ParaLong == 60       \* tokens of the long paragraph: more than one page of lines
ParaPage == 44       \* tokens of the paragraph that ends near the bottom margin

LabelAengste == "Typische Aengste"
LabelZiele == "Typische Ziele"
LabelVorurteile == "Typische Vorurteile"
HeadingBenefits == "Vorteile deines Angebots"
HeadingTrigger == "Wichtige Trigger"

\* The sections a payload is made of.
SectionPool ==
  { [heading |-> "Dein Angebot", text |-> "a a"],
    [heading |-> "Dein Angebot", text |-> Repeat("M", " ", ParaPage)],
    [heading |-> "Deine Zielgruppe", text |-> Repeat("M", "\n", ParaLong)],
    [heading |-> HeadingTrigger,
     text |-> "Typische Aengste:\n1. a\n2. M M\n\nTypische Ziele:\n3. b\n"
              \o "Typische Vorurteile:\n1. c\n7. d"],
    [heading |-> HeadingTrigger,
     text |-> "Typische Ziele:\n1. " \o Repeat("M", " ", ParaLong) \o "\n2. b"],
    [heading |-> HeadingBenefits,
     text |-> "Typische Aengste :\n1. T\n- e\n* M M\n2. U\nmore\n"
              \o "typische ziele :\n1. " \o Repeat("M", " ", ParaPage) \o "\n~ f"],
    [heading |-> HeadingBenefits, text |-> "Typische Ziele:\n1. T\n- e"] }

RECURSIVE SeqsUpTo(_, _)
SeqsUpTo(S, n) ==
  IF n = 0 THEN {<<>>}
  ELSE LET R == SeqsUpTo(S, n - 1)
       IN  R \cup {Append(q, e) : q \in R, e \in S}

Payloads == [title : {"", "Titel"}, sections : SeqsUpTo(SectionPool, MaxSections)]

Cur == [doc |-> doc, page |-> page, y |-> y, log |-> log]

SetCur(c) == doc' = c.doc /\ page' = c.page /\ y' = c.y /\ log' = c.log

InitRender ==
  /\ pc = "idle"
  /\ gpt \in Payloads
  /\ doc = 0 /\ page = 0 /\ y = 0 /\ secIdx = 0 /\ log = <<>>
  /\ arg = <<>> /\ ret = <<>>

\* let page = doc.addPage(); let y = PAGE.height - MARGIN; drawHeading(title)
RenderTitle ==
  /\ pc = "idle"
  /\ SetCur(drawHeading([addPage(Cur) EXCEPT !.y = PAGE.height - MARGIN],
                        IF gpt.title # "" THEN gpt.title ELSE "Ergebnis", 28, 20))
  /\ pc' = "sections"
  /\ UNCHANGED <<gpt, secIdx, fnVars>>

Sec == gpt.sections[secIdx + 1]

IsTriggerText(txt) ==
  \/ Contains(txt, LabelAengste \o ":")
  \/ Contains(txt, LabelZiele \o ":")
  \/ Contains(txt, LabelVorurteile \o ":")

maxWidth == PAGE.width - MARGIN * 2

\* One labelled group of the trigger branch: nothing when the block is empty.
drawTriggerGroup(c, block, label, after) ==
  IF block = "" THEN c
  ELSE drawNumberedList(drawLabel(c, label, 14, 6), parseNumberedItems(block),
                        12, 2, after, maxWidth, 18)

renderTriggerBody(c, txt) ==
  LET anxBlock   == getLabeledBlock(txt, LabelAengste, <<LabelZiele, LabelVorurteile>>)
      goalsBlock == getLabeledBlock(txt, LabelZiele, <<LabelVorurteile>>)
      prejBlock  == getLabeledBlock(txt, LabelVorurteile, <<>>)
      c1 == drawTriggerGroup(c, anxBlock, LabelAengste, 16)
      c2 == drawTriggerGroup(c1, goalsBlock, LabelZiele, 16)
  IN  drawTriggerGroup(c2, prejBlock, LabelVorurteile, 28)

\* for (const g of parseTitleWithBullets(block)) { drawNumberedList; drawBullets }
RECURSIVE drawBenefitItems(_, _, _, _)
drawBenefitItems(c, groups, lo, hi) ==
  IF lo > hi THEN c
  ELSE IF lo = hi
  THEN drawBullets(drawNumberedList(c, <<groups[lo].title>>, 12, 2, 4, maxWidth, 18),
                   groups[lo].bullets, 12, 2, 10, 18)
  ELSE LET left == drawBenefitItems(c, groups, lo, Mid(lo, hi))
       IN  IF left = left THEN drawBenefitItems(left, groups, Mid(lo, hi) + 1, hi)
           ELSE c

drawBenefitsGroup(c, block, label) ==
  LET Items(groups) == drawBenefitItems(drawLabel(c, label, 14, 8), groups, 1, Len(groups))
  IN  Items(parseTitleWithBullets(block))

renderBenefitsBody(c, txt) ==
  LET anxBlock   == getLabeledBlock(txt, LabelAengste, <<LabelZiele, LabelVorurteile>>)
      goalsBlock == getLabeledBlock(txt, LabelZiele, <<LabelVorurteile>>)
      prejBlock  == getLabeledBlock(txt, LabelVorurteile, <<>>)
      c1 == drawBenefitsGroup(c, anxBlock, LabelAengste)
      c2 == drawBenefitsGroup(c1, goalsBlock, LabelZiele)
      c3 == drawBenefitsGroup(c2, prejBlock, LabelVorurteile)
  IN  [c3 EXCEPT !.y = @ - 10]

\* Loop body, branch "Wichtige Trigger-Block" (chosen by the text)
RenderTriggerSection ==
  /\ pc = "sections" /\ secIdx < Len(gpt.sections)
  /\ IsTriggerText(Sec.text)
  /\ SetCur(renderTriggerBody(drawSubHeading(Cur, Sec.heading, 18, 6), Sec.text))
  /\ secIdx' = secIdx + 1
  /\ UNCHANGED <<pc, gpt, fnVars>>

\* Loop body, branch "Vorteile strukturiert"
RenderBenefitsSection ==
  /\ pc = "sections" /\ secIdx < Len(gpt.sections)
  /\ ~IsTriggerText(Sec.text) /\ Sec.heading = HeadingBenefits
  /\ SetCur(renderBenefitsBody(drawSubHeading(Cur, Sec.heading, 18, 6), Sec.text))
  /\ secIdx' = secIdx + 1
  /\ UNCHANGED <<pc, gpt, fnVars>>

\* Loop body, branch "normaler Fliesstext"
RenderParagraphSection ==
  /\ pc = "sections" /\ secIdx < Len(gpt.sections)
  /\ ~IsTriggerText(Sec.text) /\ Sec.heading # HeadingBenefits
  /\ SetCur(drawParagraph(drawSubHeading(Cur, Sec.heading, 18, 6), Sec.text,
                          12, 2, 14, maxWidth))
  /\ secIdx' = secIdx + 1
  /\ UNCHANGED <<pc, gpt, fnVars>>

\* return doc
RenderReturn ==
  /\ pc = "sections" /\ secIdx = Len(gpt.sections)
  /\ pc' = "done"
  /\ UNCHANGED <<fnVars, renderVars>>

NextRender ==
  \/ RenderTitle
  \/ RenderTriggerSection
  \/ RenderBenefitsSection
  \/ RenderParagraphSection
  \/ RenderReturn

SpecRender == InitRender /\ [][NextRender]_vars

\* C1: every drawText of a render by renderGptContent is issued with
\* MARGIN <= y <= PAGE.height - MARGIN on a page of the document, and the content
\* flows on to added pages: each drawText after the first is on the row of the
\* one before it, or lower on the same page by at least that one's size, or at
\* the top of the next page, which is then the newest page of the document.
C1_DrawnWithinMargins ==
  /\ \A k \in 1..Len(log) :
       /\ MARGIN <= log[k].y /\ log[k].y <= PAGE.height - MARGIN
       /\ 1 <= log[k].page /\ log[k].page <= doc
  /\ \A k \in 1..(Len(log) - 1) :
       \/ log[k + 1].page = log[k].page /\ log[k + 1].y = log[k].y
       \/ log[k + 1].page = log[k].page /\ log[k + 1].y <= log[k].y - log[k].size
       \/ log[k + 1].page = log[k].page + 1 /\ log[k + 1].y = PAGE.height - MARGIN
  /\ (log # <<>> => doc = log[Len(log)].page)

\* A finished render of three pages with a line that leaves no room for another
\* one under it and the next line on top of the page after it.
C1_Witness ==
  /\ pc = "done" /\ doc >= 3
  /\ \E k \in 1..(Len(log) - 1) :
       /\ log[k].y - 2 * (log[k].size + 2) < MARGIN
       /\ log[k + 1].page = log[k].page + 1

(***************************************************************************)
(* Second handler of api/create-pdf.js: its page cursor.                   *)
(***************************************************************************)
A4 == [w |-> 595, h |-> 842]

\* () => { const np = doc.addPage([A4.w, A4.h]); return [np, A4.h - MARGIN]; }
addPageCb(c) == [addPage(c) EXCEPT !.y = A4.h - MARGIN]

\* A cursor check that looks at y alone, not at the room the write needs.
ensureSpaceCbIgnoresNeed(c, need) ==
  IF c.y < MARGIN THEN addPageCb(c) ELSE c

\* ensureSpace(doc, fonts, page, y, need, addPageCb) of the second handler
ensureSpaceCb(c, need) ==
  IF c.y - need < MARGIN THEN addPageCb(c) ELSE c

(***************************************************************************)
(* SpecEnsure: the two ensureSpace functions applied to a cursor.          *)
(***************************************************************************)
MaxDocPages == 2     \* most pages of the document handed to ensureSpace

YValues == ((MARGIN - 30)..(MARGIN + 30)) \cup {PAGE.height - MARGIN}
NeededValues == {14, 16, 18, 22, 26, 28}

InitEnsure ==
  /\ pc = "start"
  /\ \E d \in 1..MaxDocPages, p \in 1..MaxDocPages, yy \in YValues,
        n \in NeededValues, f \in {"ensureSpace", "ensureSpaceCb"} :
       /\ p <= d
       /\ arg = [fn |-> f, c |-> [doc |-> d, page |-> p, y |-> yy, log |-> <<>>],
                 needed |-> n]
  /\ ret = <<>>
  /\ IdleRender

CallEnsureSpace ==
  /\ pc = "start" /\ arg.fn = "ensureSpace"
  /\ ret' = <<ensureSpace(arg.c, arg.needed)>>
  /\ pc' = "returned"
  /\ UNCHANGED <<arg, renderVars>>

CallEnsureSpaceCb ==
  /\ pc = "start" /\ arg.fn = "ensureSpaceCb"
  /\ ret' = <<ensureSpaceCb(arg.c, arg.needed)>>
  /\ pc' = "returned"
  /\ UNCHANGED <<arg, renderVars>>

NextEnsure == CallEnsureSpace \/ CallEnsureSpaceCb

SpecEnsure == InitEnsure /\ [][NextEnsure]_vars

\* C2: when y - needed < MARGIN, ensureSpace adds exactly one page and returns
\* that page with y = PAGE.height - MARGIN; otherwise it adds no page and
\* returns the same page and the same y.
C2_EnsureSpaceContract ==
  pc = "returned" =>
    IF arg.c.y - arg.needed < MARGIN
    THEN /\ ret[1].doc = arg.c.doc + 1
         /\ ret[1].page = arg.c.doc + 1
         /\ ret[1].y = PAGE.height - MARGIN
    ELSE /\ ret[1].doc = arg.c.doc
         /\ ret[1].page = arg.c.page
         /\ ret[1].y = arg.c.y

\* A call with the cursor above the margin but with too little room for the
\* write, on a page that is not the last one: the page returned is a new one.
C2_Witness ==
  /\ pc = "returned"
  /\ arg.c.y >= MARGIN /\ arg.c.y - arg.needed < MARGIN
  /\ arg.c.page < arg.c.doc
  /\ ret[1].page = arg.c.doc + 1

(***************************************************************************)
(* part_003: the trigger parser.                                           *)
(***************************************************************************)
\* One position of s.replace(/sub/gi, by): a match is taken where the one
\* before it has ended.
replaceStep(st, s, sub, by, i) ==
  IF i < st.next THEN st
  ELSE IF OccursAtI(s, i, sub) THEN [next |-> i + Len(sub), out |-> st.out \o by]
  ELSE [st EXCEPT !.out = @ \o Ch(s, i)]

RECURSIVE replaceLoop(_, _, _, _, _, _)
replaceLoop(st, s, sub, by, lo, hi) ==
  IF lo > hi THEN st
  ELSE IF lo = hi THEN replaceStep(st, s, sub, by, lo)
  ELSE LET left == replaceLoop(st, s, sub, by, lo, Mid(lo, hi))
       IN  IF left = left THEN replaceLoop(left, s, sub, by, Mid(lo, hi) + 1, hi) ELSE st

\* s.replace(/sub/gi, by)
ReplaceAllI(s, sub, by) == replaceLoop([next |-> 1, out |-> ""], s, sub, by, 1, Len(s)).out

\* Whether sub occurs somewhere in s, ignoring case: /sub/i.test(s)
ContainsI(s, sub) == \E i \in 1..Len(s) : OccursAtI(s, i, sub)

\* The words a category header ends in.
HeaderWords == <<"Aengste", "Ziele", "Vorbehalte", "Vorurteile">>

\* /^Typische\s+(Ängste|Ziele|Vorbehalte|Vorurteile)\s*:?\s*$/i.test(l)
isHeader(l) ==
  LET AtEnd(p) == SkipWs(l, p) = Len(l) + 1
      Colon(p) == IF Ch(l, p) = ":" THEN AtEnd(p + 1) ELSE AtEnd(p)
      Word(j) == /\ j > Len("Typische") + 1
                 /\ \E w \in DOMAIN HeaderWords :
                      /\ OccursAtI(l, j, HeaderWords[w])
                      /\ Colon(SkipWs(l, j + Len(HeaderWords[w])))
  IN  OccursAtI(l, 1, "Typische") /\ Word(SkipWs(l, Len("Typische") + 1))

\* A match of the numbered line whose second group is the whole line.
matchNumberedKeepsNumber(line) ==
  IF NumberPrefixEnd(line) # 0 /\ NumberPrefixEnd(line) <= Len(line) THEN <<line>>
  ELSE <<>>

\* line.match(/^\s*(\d+)\.\s+(.+)$/) on a trimmed line: <<>> (no match) or
\* <<m[2]>>
matchNumbered(line) ==
  LET Text(l) == IF l # 0 /\ l <= Len(line) THEN <<From(line, l)>> ELSE <<>>
  IN  Text(NumberPrefixEnd(line))

\* Loop body of parseTriggers; current is "" for null.
triggerStep(st, line) ==
  LET Push(m) ==
        IF m # <<>> /\ st.current # ""
        THEN [st EXCEPT !.blocks[st.current] = Append(@, Trim(m[1]))]
        ELSE st
  IN  IF line = "" THEN st
      ELSE IF isHeader(line)
      THEN [st EXCEPT !.current = IF ContainsI(line, "Aengste") THEN "aengste"
                                  ELSE IF ContainsI(line, "Ziele") THEN "ziele"
                                  ELSE "vorbehalte"]
      ELSE Push(matchNumbered(line))

RECURSIVE triggerLoop(_, _, _, _)
triggerLoop(st, lines, lo, hi) ==
  IF lo > hi THEN st
  ELSE IF lo = hi THEN triggerStep(st, lines[lo])
  ELSE LET left == triggerLoop(st, lines, lo, Mid(lo, hi))
       IN  IF left = left THEN triggerLoop(left, lines, Mid(lo, hi) + 1, hi) ELSE st

parseTriggers(rawText) ==
  LET Lines(lines) ==
        triggerLoop([blocks |-> [aengste |-> <<>>, ziele |-> <<>>, vorbehalte |-> <<>>],
                     current |-> ""], lines, 1, Len(lines)).blocks
  IN  Lines(MapTrim(SplitLines(ReplaceAllI(rawText, "\r", ""))))

(***************************************************************************)
(* SpecTriggers: parseTriggers applied to a text of Shape 1: lines before  *)
(* the first header, a category header, and at most MaxTriggerItems lines  *)
(* "<n>.<blanks><text><blanks>".                                           *)
(***************************************************************************)
MaxTriggerItems == 5     \* most numbered lines under the header (Shape 1: < 6)

HeaderPool ==
  { [line |-> "Typische Aengste:",     category |-> "aengste"],
    [line |-> "typische  ziele",       category |-> "ziele"],
    [line |-> "Typische Vorbehalte :", category |-> "vorbehalte"],
    [line |-> " Typische Vorurteile:", category |-> "vorbehalte"] }

TriggerItemPool ==
  { [n |-> 1,  pad |-> " ",  text |-> "Angst A", trail |-> ""],
    [n |-> 2,  pad |-> " ",  text |-> "Angst B", trail |-> ""],
    [n |-> 10, pad |-> "  ", text |-> "3. c ~ d", trail |-> " "] }

LeadPool == {<<>>, <<"1. vorab">>, <<"", "Typische">>}

\* The input line of an item: `${n}.${pad}${text}${trail}`
ItemLine(it) == NatToStr(it.n) \o "." \o it.pad \o it.text \o it.trail

TriggerText(a) ==
  JoinWith(a.lead \o <<a.header.line>> \o [k \in 1..Len(a.items) |-> ItemLine(a.items[k])],
           "\n")

InitTriggers ==
  /\ pc = "start"
  /\ arg \in [fn : {"parseTriggers"}, lead : LeadPool, header : HeaderPool,
              items : SeqsUpTo(TriggerItemPool, MaxTriggerItems)]
  /\ ret = <<>>
  /\ IdleRender

CallParseTriggers ==
  /\ pc = "start"
  /\ ret' = <<parseTriggers(TriggerText(arg))>>
  /\ pc' = "returned"
  /\ UNCHANGED <<arg, renderVars>>

NextTriggers == CallParseTriggers

SpecTriggers == InitTriggers /\ [][NextTriggers]_vars

\* C10: for a Shape 1 text, parseTriggers yields for the header's category one
\* title per numbered line, the text after the number trimmed and otherwise
\* verbatim, in input order, and nothing for the other categories.
C10_Shape1Titles ==
  pc = "returned" =>
    \A cat \in {"aengste", "ziele", "vorbehalte"} :
      ret[1][cat] = IF cat = arg.header.category
                    THEN [k \in 1..Len(arg.items) |-> arg.items[k].text]
                    ELSE <<>>

\* The text "Typische Aengste:\n1. Angst A\n2. Angst B" parsed into the fears
\* group with the two items "Angst A" and "Angst B".
C10_Witness ==
  /\ pc = "returned"
  /\ TriggerText(arg) = "Typische Aengste:\n1. Angst A\n2. Angst B"
  /\ ret[1].aengste = <<"Angst A", "Angst B">>
  /\ ret[1].ziele = <<>> /\ ret[1].vorbehalte = <<>>

(***************************************************************************)
(* part_003: the benefits parser.                                          *)
(***************************************************************************)
\* The quotation marks normalizeExample strips; of the marks the code names,
\* the texts hold the ASCII one only.
OpeningQuotes == {"\""}
ClosingQuotes == {"\""}

\* s.replace(/^[-~]\s+/, "")
StripLeadingDash(s) ==
  IF Ch(s, 1) \in {"-", "~"} /\ SkipWs(s, 2) > 2 THEN From(s, SkipWs(s, 2)) ELSE s

\* s.replace(/^["...]/, "").replace(/["...]$/, "")
StripQuotes(s) ==
  LET Closing(t) == IF Ch(t, Len(t)) \in ClosingQuotes THEN Slice(t, 1, Len(t) - 1) ELSE t
  IN  Closing(IF Ch(s, 1) \in OpeningQuotes THEN From(s, 2) ELSE s)

\* s.replace(new RegExp(`^\\s*${esc}\\s*[~-]\\s*`, "i"), "")
StripTitlePrefix(s, title) ==
  LET Dash(k) == IF Ch(s, k) \in {"~", "-"} THEN From(s, SkipWs(s, k + 1)) ELSE s
      Title(j) == IF OccursAtI(s, j, title) THEN Dash(SkipWs(s, j + Len(title))) ELSE s
  IN  Title(SkipWs(s, 1))

normalizeExample(ex, title) ==
  Trim(StripTitlePrefix(StripQuotes(StripLeadingDash(ex)), title))

\* lines.filter(Boolean)
RECURSIVE FilterNonEmpty(_, _, _)
FilterNonEmpty(lines, lo, hi) ==
  IF lo > hi THEN <<>>
  ELSE IF lo = hi THEN (IF lines[lo] # "" THEN <<lines[lo]>> ELSE <<>>)
  ELSE FilterNonEmpty(lines, lo, Mid(lo, hi)) \o FilterNonEmpty(lines, Mid(lo, hi) + 1, hi)

\* Where a match of /\s*~\s*Beispiele:?/i that starts at i ends (0: no match).
ExamplesSuffixEnd(s, i) ==
  LET Colon(p) == IF Ch(s, p) = ":" THEN p + 1 ELSE p
      Word(k) == IF OccursAtI(s, k, "Beispiele") THEN Colon(k + Len("Beispiele")) ELSE 0
      Dash(j) == IF Ch(s, j) = "~" THEN Word(SkipWs(s, j + 1)) ELSE 0
  IN  Dash(SkipWs(s, i))

\* s.replace(/\s*~\s*Beispiele:?/i, ""): the leftmost match is removed
StripExamplesSuffix(s) ==
  LET Cut(i) == Slice(s, 1, i - 1) \o From(s, ExamplesSuffixEnd(s, i))
      Leftmost(starts) == IF starts = {} THEN s ELSE Cut(Min(starts))
  IN  Leftmost({i \in 1..Len(s) : ExamplesSuffixEnd(s, i) # 0})

\* Where a match of /\s+~\s+/ that starts at i ends (0: no match).
DashSeparatorEnd(s, i) ==
  LET Dash(j) == IF j > i /\ Ch(s, j) = "~" /\ SkipWs(s, j + 1) > j + 1
                 THEN SkipWs(s, j + 1) ELSE 0
  IN  Dash(SkipWs(s, i))

dashSplitStep(st, s, i) ==
  LET Sep(e) == IF i >= st.from /\ e # 0
                THEN [from |-> e, acc |-> Append(st.acc, Slice(s, st.from, i - 1))]
                ELSE st
  IN  Sep(DashSeparatorEnd(s, i))

RECURSIVE dashSplitLoop(_, _, _, _)
dashSplitLoop(st, s, lo, hi) ==
  IF lo > hi THEN st
  ELSE IF lo = hi THEN dashSplitStep(st, s, lo)
  ELSE LET left == dashSplitLoop(st, s, lo, Mid(lo, hi))
       IN  IF left = left THEN dashSplitLoop(left, s, Mid(lo, hi) + 1, hi) ELSE st

\* titlePart.split(/\s+~\s+/)
SplitOnDash(s) ==
  LET Pieces(end) == Append(end.acc, From(s, end.from))
  IN  Pieces(dashSplitLoop([from |-> 1, acc |-> <<>>], s, 1, Len(s)))

\* The entries of the map, in insertion order, with ex pushed to the examples
\* of the one whose key is key.
PushExample(map, key, ex) ==
  [k \in 1..Len(map) |->
     IF map[k].key = key /\ ex # "" THEN [map[k] EXCEPT !.examples = Append(@, ex)]
     ELSE map[k]]

\* A new entry for every numbered line, whether the key is in the map or not
SetAsNewEntry(map, key, titlePart) ==
  Append(map, [key |-> key, title |-> titlePart, examples |-> <<>>])

\* if (!map.has(key)) map.set(key, { title: titlePart, examples: [] })
SetIfAbsent(map, key, titlePart) ==
  IF \E k \in 1..Len(map) : map[k].key = key THEN map
  ELSE Append(map, [key |-> key, title |-> titlePart, examples |-> <<>>])

\* A numbered line whose text is titlePart0
nestedNumbered(map, titlePart0) ==
  LET Entry(titlePart, firstEx) ==
        IF firstEx # ""
        THEN PushExample(SetIfAbsent(map, toLowerCase(titlePart), titlePart),
                         toLowerCase(titlePart), normalizeExample(firstEx, titlePart))
        ELSE SetIfAbsent(map, toLowerCase(titlePart), titlePart)
      Split(split) ==
        IF Len(split) >= 2
        THEN Entry(Trim(split[1]), Trim(JoinRange(split, " ~ ", 2, Len(split))))
        ELSE Entry(titlePart0, "")
  IN  Split(SplitOnDash(titlePart0))

\* A bullet line: an example of the entry inserted last
nestedBullet(map, line) ==
  IF map = <<>> THEN map
  ELSE PushExample(map, map[Len(map)].key,
                   normalizeExample(StripBullet(line), map[Len(map)].title))

\* Loop body of parseNestedListBlock
nestedStep(map, line) ==
  LET Line(m) == IF m # <<>> THEN nestedNumbered(map, Trim(m[1]))
                 ELSE IF IsBulletLine(line) THEN nestedBullet(map, line)
                 ELSE map
  IN  Line(matchNumbered(line))

RECURSIVE nestedLoop(_, _, _, _)
nestedLoop(map, lines, lo, hi) ==
  IF lo > hi THEN map
  ELSE IF lo = hi THEN nestedStep(map, lines[lo])
  ELSE LET left == nestedLoop(map, lines, lo, Mid(lo, hi))
       IN  IF left = left THEN nestedLoop(left, lines, Mid(lo, hi) + 1, hi) ELSE map

\* /^Typische\s+/i.test(rawLines[0])
IsTypischeLine(rawLines) ==
  /\ rawLines # <<>>
  /\ OccursAtI(rawLines[1], 1, "Typische")
  /\ IsWs(Ch(rawLines[1], Len("Typische") + 1))

\* The first five entries with all the examples collected for them.
FirstItemsAllExamples(map) ==
  [k \in 1..Min({5, Len(map)}) |-> [title |-> map[k].title, examples |-> map[k].examples]]

\* Array.from(map.values()).slice(0, 5).map(it => ({ title, examples.slice(0, 2) }))
FirstItems(map) ==
  [k \in 1..Min({5, Len(map)}) |->
     [title |-> map[k].title,
      examples |-> SubSeq(map[k].examples, 1, Min({2, Len(map[k].examples)}))]]

parseNestedListBlock(block) ==
  LET Parsed(rawLines) ==
        IF IsTypischeLine(rawLines)
        THEN [header |-> ReplaceAllI(StripExamplesSuffix(rawLines[1]),
                                     "Vorurteile", "Vorbehalte"),
              items |-> FirstItems(nestedLoop(<<>>, rawLines, 2, Len(rawLines)))]
        ELSE [header |-> "",
              items |-> FirstItems(nestedLoop(<<>>, rawLines, 1, Len(rawLines)))]
      Lines(lines) == Parsed(FilterNonEmpty(lines, 1, Len(lines)))
  IN  Lines(MapTrim(SplitLines(ReplaceAllI(block, "\r", ""))))

(***************************************************************************)
(* SpecNested: parseNestedListBlock applied to a header and a block of at  *)
(* most MaxBlockLines lines.  A line is a numbered line with a title not   *)
(* used before ("new"; every second such title comes with an inline        *)
(* example), a numbered line that repeats the first title in lower case    *)
(* with an inline example ("again"), or a bullet line ("bullet").  The     *)
(* example of line i is the text "x<i>".                                   *)
(***************************************************************************)
MaxBlockLines == 7     \* most lines of a block: six titles and one line more

LineShapes == {"new", "again", "bullet"}

TitleNames == <<"A", "B", "C", "D", "E", "F", "G", "H">>

BlockHeader == "Typische Ziele ~ Beispiele:"

\* How many of the lines 1..i bring a new title
NewTitles(shapes, i) == Cardinality({j \in 1..i : shapes[j] = "new"})

\* The title of the numbered line i of the block
TitleAt(shapes, i) ==
  IF shapes[i] = "again" THEN "a" ELSE TitleNames[NewTitles(shapes, i)]

\* Whether line i is a numbered line with an inline example
HasInlineExample(shapes, i) ==
  \/ shapes[i] = "again"
  \/ shapes[i] = "new" /\ NewTitles(shapes, i) % 2 = 0

ExampleAt(i) == "x" \o NatToStr(i)

BlockLine(shapes, i) ==
  IF shapes[i] = "bullet" THEN "- " \o ExampleAt(i)
  ELSE IF HasInlineExample(shapes, i)
  THEN NatToStr(i) \o ". " \o TitleAt(shapes, i) \o " ~ " \o ExampleAt(i)
  ELSE NatToStr(i) \o ". " \o TitleAt(shapes, i)

BlockText(a) ==
  JoinWith(<<BlockHeader>> \o [i \in 1..Len(a.shapes) |-> BlockLine(a.shapes, i)], "\n")

InitNested ==
  /\ pc = "start"
  /\ arg \in [fn : {"parseNestedListBlock"}, shapes : SeqsUpTo(LineShapes, MaxBlockLines)]
  /\ ret = <<>>
  /\ IdleRender

CallParseNestedListBlock ==
  /\ pc = "start"
  /\ ret' = <<parseNestedListBlock(BlockText(arg))>>
  /\ pc' = "returned"
  /\ UNCHANGED <<arg, renderVars>>

NextNested == CallParseNestedListBlock

SpecNested == InitNested /\ [][NextNested]_vars

\* The numbered lines that bring a title (compared without case) for the first
\* time, and how many of them there are up to line i.
FirstOccurrences(shapes) ==
  {i \in 1..Len(shapes) :
     /\ shapes[i] # "bullet"
     /\ \A j \in 1..(i - 1) :
          shapes[j] # "bullet" =>
            toLowerCase(TitleAt(shapes, j)) # toLowerCase(TitleAt(shapes, i))}

TitlesUpTo(shapes, i) == Cardinality({j \in FirstOccurrences(shapes) : j <= i})

\* C8: parseNestedListBlock returns at most 5 items with at most 2 examples
\* each; the items are the first five distinct titles in input order, and no
\* example of a returned item comes from a line of a title beyond the fifth or
\* from a bullet line under such a title: what exceeds the caps is dropped.
C8_CapsAndNoMerge ==
  pc = "returned" =>
    LET items  == ret[1].items
        shapes == arg.shapes
    IN  /\ Len(items) = Min({5, Cardinality(FirstOccurrences(shapes))})
        /\ \A k \in 1..Len(items) :
             /\ Len(items[k].examples) <= 2
             /\ \E i \in FirstOccurrences(shapes) :
                  TitlesUpTo(shapes, i) = k /\ items[k].title = TitleAt(shapes, i)
             /\ \A n \in 1..Len(items[k].examples) :
                  \E i \in 1..Len(shapes) :
                    /\ items[k].examples[n] = ExampleAt(i)
                    /\ \/ /\ HasInlineExample(shapes, i)
                          /\ toLowerCase(TitleAt(shapes, i)) = toLowerCase(items[k].title)
                       \/ shapes[i] = "bullet" /\ TitlesUpTo(shapes, i) <= 5

\* A block of six titles, the sixth with an example of its own and a bullet
\* under it: five items come back.  And a block whose first title gets three
\* examples: it comes back with the first two.
C8_Witness ==
  /\ pc = "returned"
  /\ \/ /\ arg.shapes = <<"new", "new", "new", "new", "new", "new", "bullet">>
        /\ Len(ret[1].items) = 5
     \/ /\ arg.shapes = <<"new", "again", "bullet", "again">>
        /\ ret[1].items = <<[title |-> "A", examples |-> <<"x2", "x3">>]>>

(***************************************************************************)
(* parseBenefitsBlock of part_002.                                         *)
(***************************************************************************)
\* clean.replace(/^[-~]\s*Beispiele\s*:?/i, "")
StripLeadingExamples(s) ==
  LET Colon(p) == IF Ch(s, p) = ":" THEN p + 1 ELSE p
      Word(k) == IF OccursAtI(s, k, "Beispiele")
                 THEN From(s, Colon(SkipWs(s, k + Len("Beispiele")))) ELSE s
  IN  IF Ch(s, 1) \in {"-", "~"} THEN Word(SkipWs(s, 2)) ELSE s

\* t.replace(/^\d+\.\s*/, "")
StripNumbering(t) ==
  LET Dot(k) == IF k > 1 /\ Ch(t, k) = "." THEN From(t, SkipWs(t, k + 1)) ELSE t
  IN  Dot(SkipDigits(t, 1))

\* The item of the lines l1 and l2 (l2 is "" after the last line); its title
\* is "" when nothing is pushed.
benefitPair(l1, l2) ==
  LET Item(p1, p2) ==
        LET Bullet(p) == IF Len(p) >= 2 /\ p[2] # "" THEN <<Trim(p[2])>> ELSE <<>>
            Title(p) == Trim(StripNumbering(p[1]))
            CleanTitle(title) == IF title # "" THEN title ELSE Title(p2)
        IN  [title |-> CleanTitle(Title(p1)), bullets |-> Bullet(p1) \o Bullet(p2)]
  IN  Item(SplitOnDash(l1), SplitOnDash(l2))

\* Loop body for i = 2 * (p - 1), p = 1, 2, ...
pairStep(items, lines, p) ==
  LET Push(it) == IF it.title # "" THEN Append(items, it) ELSE items
  IN  Push(benefitPair(lines[2 * p - 1],
                       IF 2 * p <= Len(lines) THEN lines[2 * p] ELSE ""))

RECURSIVE pairLoop(_, _, _, _)
pairLoop(items, lines, lo, hi) ==
  IF lo > hi THEN items
  ELSE IF lo = hi THEN pairStep(items, lines, lo)
  ELSE LET left == pairLoop(items, lines, lo, Mid(lo, hi))
       IN  IF left = left THEN pairLoop(left, lines, Mid(lo, hi) + 1, hi) ELSE items

parseBenefitsBlock(raw) ==
  LET First5(items) == SubSeq(items, 1, Min({5, Len(items)}))
      Items(lines) == First5(pairLoop(<<>>, lines, 1, (Len(lines) + 1) \div 2))
      Lines(split) == Items(FilterNonEmpty(split, 1, Len(split)))
  IN  Lines(MapTrim(SplitLines(Trim(StripLeadingExamples(Trim(raw))))))

(***************************************************************************)
(* SpecBenefitsBlock: parseBenefitsBlock applied to a block of n lines,    *)
(* with or without "~ Beispiele:" in front.  The lines at odd positions    *)
(* have one shape and those at even positions one shape: a numbered line   *)
(* "<i>. Titel <letter>" ("plain"), the same followed by " ~ e<i>"          *)
(* ("dash"), or a bullet line "- e<i>" ("bullet").                         *)
(***************************************************************************)
MaxFlatLines == 11     \* most lines of a block: 10 lines make five pairs

FlatShapes == {"plain", "dash", "bullet"}

FlatShape(a, i) == IF i % 2 = 1 THEN a.odd ELSE a.even

FlatTitle(i) == "Titel " \o UpperChars[i]

FlatExample(i) == "e" \o NatToStr(i)

FlatLine(a, i) ==
  IF FlatShape(a, i) = "bullet" THEN "- " \o FlatExample(i)
  ELSE IF FlatShape(a, i) = "dash"
  THEN NatToStr(i) \o ". " \o FlatTitle(i) \o " ~ " \o FlatExample(i)
  ELSE NatToStr(i) \o ". " \o FlatTitle(i)

FlatBlock(a) ==
  (IF a.lead THEN "~ Beispiele:\n" ELSE "")
    \o JoinWith([i \in 1..a.n |-> FlatLine(a, i)], "\n")

InitBenefitsBlock ==
  /\ pc = "start"
  /\ arg \in [fn : {"parseBenefitsBlock"}, n : 0..MaxFlatLines,
              odd : FlatShapes, even : FlatShapes, lead : BOOLEAN]
  /\ ret = <<>>
  /\ IdleRender

CallParseBenefitsBlock ==
  /\ pc = "start"
  /\ ret' = <<parseBenefitsBlock(FlatBlock(arg))>>
  /\ pc' = "returned"
  /\ UNCHANGED <<arg, renderVars>>

NextBenefitsBlock == CallParseBenefitsBlock

SpecBenefitsBlock == InitBenefitsBlock /\ [][NextBenefitsBlock]_vars

\* C9: for a block of n >= 6 flat numbered lines and no bullet lines,
\* parseBenefitsBlock returns exactly min(5, floor(n/2)) items; the i-th has
\* the title of line 2i-1 without its number and at most 2 examples, each the
\* example of line 2i-1 or of line 2i.
C9_PairedItems ==
  pc = "returned" /\ arg.n >= 6 /\ arg.odd # "bullet" /\ arg.even # "bullet" =>
    LET items == ret[1]
    IN  /\ Len(items) = Min({5, arg.n \div 2})
        /\ \A i \in 1..Len(items) :
             /\ items[i].title = FlatTitle(2 * i - 1)
             /\ Len(items[i].bullets) <= 2
             /\ \A k \in 1..Len(items[i].bullets) :
                  items[i].bullets[k] \in {FlatExample(2 * i - 1), FlatExample(2 * i)}

\* C9, the part that holds: the count is min(5, ceil(n/2)), an unpaired last
\* line being an item of its own; the rest is as stated.
C9_PairedItemsOddLast ==
  pc = "returned" /\ arg.n >= 6 /\ arg.odd # "bullet" /\ arg.even # "bullet" =>
    LET items == ret[1]
    IN  /\ Len(items) = Min({5, (arg.n + 1) \div 2})
        /\ \A i \in 1..Len(items) :
             /\ items[i].title = FlatTitle(2 * i - 1)
             /\ Len(items[i].bullets) <= 2
             /\ \A k \in 1..Len(items[i].bullets) :
                  items[i].bullets[k] \in {FlatExample(2 * i - 1), FlatExample(2 * i)}

(***************************************************************************)
(* The handler of part_003: layout constants, drawing helpers, the three   *)
(* section renderers and the section loop.                                 *)
(***************************************************************************)
MAX_W == A4.w - MARGIN * 2

SIZES == [h1 |-> 24, h2 |-> 18, h3 |-> 14, p |-> 12, li |-> 12, liSub |-> 12]

GAPS == [afterH1 |-> 18, afterH2 |-> 8, afterPara |-> 20, afterListBlock |-> 14,
         afterLi |-> 4, afterLiGroup |-> 10, blockGap |-> 22, bigGap |-> 30]

needNewPage(yy) == yy < 70

newPage(c) == addPage(c)

\* if (needNewPage(y)) { page = newPage(contentPdf); y = A4.h - MARGIN; }
pageCheck(c) ==
  IF needNewPage(c.y) THEN [newPage(c) EXCEPT !.y = A4.h - MARGIN] ELSE c

\* page.drawText(ln, { x, y: yy, size, font }); yy -= size + 2
wrappedLine(c, ln, x, size) ==
  [drawText(c, ln, x, size, "regular") EXCEPT !.y = @ - (size + 2)]

RECURSIVE wrappedLines(_, _, _, _, _, _)
wrappedLines(c, lines, x, size, lo, hi) ==
  IF lo > hi THEN c
  ELSE IF lo = hi THEN wrappedLine(c, lines[lo], x, size)
  ELSE LET left == wrappedLines(c, lines, x, size, lo, Mid(lo, hi))
       IN  IF left = left THEN wrappedLines(left, lines, x, size, Mid(lo, hi) + 1, hi)
           ELSE c

\* The cursor that comes back has the returned yy as its y.
drawTextWrapped(c, text, x, size) ==
  LET Lines(lines) == wrappedLines(c, lines, x, size, 1, Len(lines))
  IN  Lines(wrapLines(text, Regular, size, MAX_W))

drawH2(c, text) ==
  [drawText(c, text, MARGIN, SIZES.h2, "bold") EXCEPT !.y = @ - (SIZES.h2 + GAPS.afterH2)]

drawH3(c, text) ==
  [drawText(c, text, MARGIN, SIZES.h3, "bold")
     EXCEPT !.y = @ - (SIZES.h3 + GAPS.afterListBlock)]

\* if (needNewPage(cursor)) { ... }; page.drawText(ln, { x, y: cursor }); cursor -= size + 2
pagedLine(c, ln, x, size) == wrappedLine(pageCheck(c), ln, x, size)

RECURSIVE pagedLines(_, _, _, _, _, _)
pagedLines(c, lines, x, size, lo, hi) ==
  IF lo > hi THEN c
  ELSE IF lo = hi THEN pagedLine(c, lines[lo], x, size)
  ELSE LET left == pagedLines(c, lines, x, size, lo, Mid(lo, hi))
       IN  IF left = left THEN pagedLines(left, lines, x, size, Mid(lo, hi) + 1, hi)
           ELSE c

\* A text with a hanging indent: `${lead}${lines[0]}` at x, the other lines at
\* x + indent.  lines[0] of no lines is undefined.
hangingText(c, lead, lines, x, indent, size) ==
  pagedLines(pagedLine(c, lead \o (IF lines = <<>> THEN "undefined" ELSE lines[1]), x, size),
             lines, x + indent, size, 2, Len(lines))

\* Loop body of drawNumberedListPagedHanging for items[i - 1]
hangingItem(c, i, content) ==
  LET Item(prefix, prefixW) ==
        [hangingText(c, prefix, wrapLines(content, Regular, SIZES.li, MAX_W - prefixW),
                     MARGIN, prefixW, SIZES.li)
           EXCEPT !.y = @ - GAPS.afterLi]
      Prefix(prefix) == Item(prefix, widthOfTextAtSize(Regular, prefix, SIZES.li))
  IN  Prefix(NatToStr(i) \o ". ")

RECURSIVE hangingItems(_, _, _, _)
hangingItems(c, items, lo, hi) ==
  IF lo > hi THEN c
  ELSE IF lo = hi THEN hangingItem(c, lo, items[lo])
  ELSE LET left == hangingItems(c, items, lo, Mid(lo, hi))
       IN  IF left = left THEN hangingItems(left, items, Mid(lo, hi) + 1, hi) ELSE c

drawNumberedListPagedHanging(c, items) == hangingItems(c, items, 1, Len(items))

\* One example of an item of drawNestedList
nestedExample(c, b) ==
  hangingText(c, "* ", wrapLines(b, Regular, SIZES.liSub, MAX_W - 16), MARGIN + 12, 4,
              SIZES.liSub)

RECURSIVE nestedExamples(_, _, _, _)
nestedExamples(c, bullets, lo, hi) ==
  IF lo > hi THEN c
  ELSE IF lo = hi THEN nestedExample(c, bullets[lo])
  ELSE LET left == nestedExamples(c, bullets, lo, Mid(lo, hi))
       IN  IF left = left THEN nestedExamples(left, bullets, Mid(lo, hi) + 1, hi) ELSE c

\* Loop body of drawNestedList for data.items[i - 1]
nestedItem(c, i, item) ==
  LET Bullets(c1) ==
        [nestedExamples([c1 EXCEPT !.y = @ - 2], item.examples,
                        1, Min({2, Len(item.examples)}))
           EXCEPT !.y = @ - GAPS.afterLiGroup]
      Title(prefix, prefixW) ==
        Bullets(hangingText(c, prefix,
                            wrapLines(item.title, Regular, SIZES.li, MAX_W - prefixW),
                            MARGIN, prefixW, SIZES.li))
      Prefix(prefix) == Title(prefix, widthOfTextAtSize(Regular, prefix, SIZES.li))
  IN  Prefix(NatToStr(i) \o ". ")

RECURSIVE nestedItems(_, _, _, _)
nestedItems(c, items, lo, hi) ==
  IF lo > hi THEN c
  ELSE IF lo = hi THEN nestedItem(c, lo, items[lo])
  ELSE LET left == nestedItems(c, items, lo, Mid(lo, hi))
       IN  IF left = left THEN nestedItems(left, items, Mid(lo, hi) + 1, hi) ELSE c

drawNestedList(c, data) ==
  nestedItems(IF data.header # "" THEN drawH3(pageCheck(c), data.header) ELSE c,
              data.items, 1, Len(data.items))

\* const drawParagraph = (heading, text) => { ... } of the handler
handlerDrawParagraph(c, heading, text) ==
  LET After(c1) == [c1 EXCEPT !.y = @ - GAPS.afterPara]
  IN  After(drawTextWrapped(pageCheck(drawH2(pageCheck(c), heading)), text, MARGIN,
                            SIZES.p))

\* One category of drawTrigger
triggerBlock(c, items, header, gap) ==
  IF items = <<>> THEN c
  ELSE [drawNumberedListPagedHanging(drawH3(pageCheck(c), header), items)
          EXCEPT !.y = @ - gap]

drawTrigger(c, rawText) ==
  LET Blocks(blocks) ==
        triggerBlock(
          triggerBlock(
            triggerBlock(c, blocks.aengste, "Typische Aengste", GAPS.blockGap),
            blocks.ziele, "Typische Ziele", GAPS.blockGap),
          blocks.vorbehalte, "Typische Vorbehalte", GAPS.bigGap)
  IN  Blocks(parseTriggers(rawText))

\* text.split(/\n(?=Typische\s+)/i): one position of the text
blockSplitStep(st, text, i) ==
  IF /\ Ch(text, i) = "\n"
     /\ OccursAtI(text, i + 1, "Typische")
     /\ IsWs(Ch(text, i + 1 + Len("Typische")))
  THEN [from |-> i + 1, acc |-> Append(st.acc, Slice(text, st.from, i - 1))]
  ELSE st

RECURSIVE blockSplitLoop(_, _, _, _)
blockSplitLoop(st, text, lo, hi) ==
  IF lo > hi THEN st
  ELSE IF lo = hi THEN blockSplitStep(st, text, lo)
  ELSE LET left == blockSplitLoop(st, text, lo, Mid(lo, hi))
       IN  IF left = left THEN blockSplitLoop(left, text, Mid(lo, hi) + 1, hi) ELSE st

SplitBeforeTypische(text) ==
  LET Pieces(end) == Append(end.acc, From(text, end.from))
  IN  Pieces(blockSplitLoop([from |-> 1, acc |-> <<>>], text, 1, Len(text)))

\* Loop body of drawBenefits
benefitsBlock(c, block) ==
  LET Draw(parsed) ==
        IF parsed.items = <<>> /\ parsed.header = "" THEN c
        ELSE [drawNestedList(pageCheck(c), parsed) EXCEPT !.y = @ - GAPS.blockGap]
  IN  IF Trim(block) = "" THEN c ELSE Draw(parseNestedListBlock(block))

RECURSIVE benefitsBlocks(_, _, _, _)
benefitsBlocks(c, blocks, lo, hi) ==
  IF lo > hi THEN c
  ELSE IF lo = hi THEN benefitsBlock(c, blocks[lo])
  ELSE LET left == benefitsBlocks(c, blocks, lo, Mid(lo, hi))
       IN  IF left = left THEN benefitsBlocks(left, blocks, Mid(lo, hi) + 1, hi) ELSE c

drawBenefits(c, rawText) ==
  LET Blocks(blocks) == benefitsBlocks(c, blocks, 1, Len(blocks))
  IN  Blocks(SplitBeforeTypische(ReplaceAllI(rawText, "\r", "")))

(***************************************************************************)
(* SpecPaged: the handler of part_003 renders a payload of up to           *)
(* MaxPagedSections sections.                                              *)
(***************************************************************************)
MaxPagedSections == 3   \* most sections of a payload
ParaShort == 4          \* lines of a short paragraph
ParaMost == 42          \* lines of a paragraph that ends near the foot of page 1
ParaOver == 60          \* lines of a paragraph longer than a page

TriggerHeading == "Wichtige Trigger fuer deine Entscheider"

PagedSectionPool ==
  { [heading |-> "Dein Angebot",     text |-> Repeat("M", " ", ParaShort)],
    [heading |-> "deine zielgruppe ", text |-> Repeat("M", " ", ParaMost)],
    [heading |-> "Dein Positionierungs-Vorschlag", text |-> Repeat("M", " ", ParaOver)],
    [heading |-> TriggerHeading,
     text |-> "Typische Aengste:\n1. Angst A\n2. M M\n\nTypische Ziele:\n1. Ziel A"],
    [heading |-> "Vorteile deines Angebots",
     text |-> "Typische Ziele ~ Beispiele:\n1. T ~ e\n- M M\nTypische Vorurteile:\n1. V"] }

PagedPayloads ==
  [title : {"", "Titel"}, sections : SeqsUpTo(PagedSectionPool, MaxPagedSections)]

InitPaged ==
  /\ pc = "idle"
  /\ gpt \in PagedPayloads
  /\ doc = 0 /\ page = 0 /\ y = 0 /\ secIdx = 0 /\ log = <<>>
  /\ arg = <<>> /\ ret = <<>>

\* let page = newPage(contentPdf); let y = A4.h - MARGIN; H1
PagedTitle ==
  /\ pc = "idle"
  /\ LET Title(c) == [drawText(c, IF gpt.title # "" THEN gpt.title
                                  ELSE "Deine persoenliche Positionierung",
                               MARGIN, SIZES.h1, "bold")
                        EXCEPT !.y = @ - (SIZES.h1 + GAPS.afterH1)]
     IN  SetCur(Title([newPage(Cur) EXCEPT !.y = A4.h - MARGIN]))
  /\ pc' = "sections"
  /\ UNCHANGED <<gpt, secIdx, fnVars>>

\* const heading = String(sec.heading || "").trim()
PagedHeading == Trim(Sec.heading)

IsParagraphHeading(heading) ==
  \/ toLowerCase(heading) \in {"dein angebot", "deine zielgruppe"}
  \/ /\ ~OccursAtI(heading, 1, "Wichtige Trigger")
     /\ ~OccursAtI(heading, 1, "Vorteile deines Angebots")

PagedParagraphSection ==
  /\ pc = "sections" /\ secIdx < Len(gpt.sections)
  /\ IsParagraphHeading(PagedHeading)
  /\ SetCur(handlerDrawParagraph(Cur, PagedHeading, Trim(Sec.text)))
  /\ secIdx' = secIdx + 1
  /\ UNCHANGED <<pc, gpt, fnVars>>

PagedTriggerSection ==
  /\ pc = "sections" /\ secIdx < Len(gpt.sections)
  /\ ~IsParagraphHeading(PagedHeading)
  /\ OccursAtI(PagedHeading, 1, "Wichtige Trigger")
  /\ LET Body(c) == drawTrigger([c EXCEPT !.y = @ - 4], Trim(Sec.text))
     IN  SetCur(Body(drawH2(pageCheck(Cur), TriggerHeading)))
  /\ secIdx' = secIdx + 1
  /\ UNCHANGED <<pc, gpt, fnVars>>

PagedBenefitsSection ==
  /\ pc = "sections" /\ secIdx < Len(gpt.sections)
  /\ ~IsParagraphHeading(PagedHeading)
  /\ ~OccursAtI(PagedHeading, 1, "Wichtige Trigger")
  /\ LET Body(c) == drawBenefits([c EXCEPT !.y = @ - 2], Trim(Sec.text))
     IN  SetCur(Body(drawH2([newPage(Cur) EXCEPT !.y = A4.h - MARGIN],
                            "Vorteile deines Angebots")))
  /\ secIdx' = secIdx + 1
  /\ UNCHANGED <<pc, gpt, fnVars>>

\* const contentBytes = await contentPdf.save()
PagedReturn ==
  /\ pc = "sections" /\ secIdx = Len(gpt.sections)
  /\ pc' = "done"
  /\ UNCHANGED <<fnVars, renderVars>>

NextPaged ==
  \/ PagedTitle
  \/ PagedParagraphSection
  \/ PagedTriggerSection
  \/ PagedBenefitsSection
  \/ PagedReturn

SpecPaged == InitPaged /\ [][NextPaged]_vars

\* The heading (the last H2 or H3) that the drawText k of the log stands under
\* (0: none).
HeadingOf(k) ==
  LET above == {j \in 1..(k - 1) : log[j].font = "bold"}
  IN  IF above = {} THEN 0 ELSE CHOOSE j \in above : \A i \in above : i <= j

\* Whether the drawText k is a line of the body of a paragraph section
IsParagraphLine(k) ==
  /\ log[k].font = "regular"
  /\ HeadingOf(k) # 0
  /\ log[HeadingOf(k)].size = SIZES.h2
  /\ log[HeadingOf(k)].text \notin {TriggerHeading, "Vorteile deines Angebots"}

\* C3: in a render by the handler of part_003 no line of a paragraph is drawn
\* below the bottom margin: a paragraph that needs more height than the page
\* has left goes on at the top of a new page.
C3_ParagraphLinesAboveMargin ==
  \A k \in 1..Len(log) : IsParagraphLine(k) => log[k].y >= MARGIN

(***************************************************************************)
(* The handler of part_000: drawSection and the section loop.  Its         *)
(* wrapLines is the wrapLines above, line for line.                        *)
(***************************************************************************)
pageWidth == 595
pageHeight == 842
margin == 56

\* Loop body of drawSection's  for (const ln of lines)  with its break
sectionLine(st, ln, x, size) ==
  LET Drawn(c) == [c |-> c, broken |-> c.y < 70]
  IN  IF st.broken THEN st
      ELSE Drawn([drawText(st.c, ln, x, size, "regular") EXCEPT !.y = @ - (size + 2)])

RECURSIVE sectionLines(_, _, _, _, _, _)
sectionLines(st, lines, x, size, lo, hi) ==
  IF lo > hi THEN st
  ELSE IF lo = hi THEN sectionLine(st, lines[lo], x, size)
  ELSE LET left == sectionLines(st, lines, x, size, lo, Mid(lo, hi))
       IN  IF left = left THEN sectionLines(left, lines, x, size, Mid(lo, hi) + 1, hi)
           ELSE st

\* c.y is cursorY; the cursor that comes back has the returned cursorY - gap as
\* its y.
drawSection(c, x, width, heading, body, size, gap) ==
  LET Gap(c2) == [c2 EXCEPT !.y = @ - gap]
      Lines(c1, lines) ==
        sectionLines([c |-> c1, broken |-> FALSE], lines, x, size, 1, Len(lines)).c
      Body(c1) ==
        IF body # "" THEN Lines(c1, wrapLines(body, Regular, size, width)) ELSE c1
  IN  Gap(Body(IF heading # ""
               THEN [drawText(c, heading, x, 16, "bold") EXCEPT !.y = @ - (16 + gap * 3)]
               ELSE c))

(***************************************************************************)
(* SpecSections: the handler of part_000 renders a payload that            *)
(* validatePayload accepts: a title and MinSections sections or more, each *)
(* with a heading and a text of three characters or more.                  *)
(***************************************************************************)
MinSections == 3       \* fewest sections validatePayload accepts
MaxBodySections == 3   \* most sections of a payload
BodyShort == 2         \* lines of a short body
BodyHalf == 30         \* lines of a body that fills most of a page
BodyOver == 50         \* lines of a body longer than the room under the title

BodyPool ==
  { [heading |-> "Dein Angebot",     text |-> Repeat("M", " ", BodyShort)],
    [heading |-> "Deine Zielgruppe", text |-> Repeat("M", " ", BodyHalf)],
    [heading |-> "Dein Vorschlag",   text |-> Repeat("M", " ", BodyOver)],
    [heading |-> "Zusammenfassung",  text |-> "Kurzer Ueberblick"] }

SectionPayloads ==
  { p \in [title : {"Titel"}, sections : SeqsUpTo(BodyPool, MaxBodySections)] :
      Len(p.sections) >= MinSections }

InitSections ==
  /\ pc = "idle"
  /\ gpt \in SectionPayloads
  /\ doc = 0 /\ page = 0 /\ y = 0 /\ secIdx = 0 /\ log = <<>>
  /\ arg = <<>> /\ ret = <<>>

\* let page = contentPdf.addPage(...); let y = pageHeight - margin; title; y -= 28
SectionsTitle ==
  /\ pc = "idle"
  /\ LET Title(c) == [drawText(c, gpt.title, margin, 20, "bold") EXCEPT !.y = @ - 28]
     IN  SetCur(Title([addPage(Cur) EXCEPT !.y = pageHeight - margin]))
  /\ pc' = "sections"
  /\ UNCHANGED <<gpt, secIdx, fnVars>>

\* One round of  for (const sec of gpt.sections || [])
SectionsDrawSection ==
  /\ pc = "sections" /\ secIdx < Len(gpt.sections)
  /\ LET Placed(c) == IF c.y < margin + 80
                      THEN [addPage(c) EXCEPT !.y = pageHeight - margin]
                      ELSE c
     IN  SetCur(Placed(drawSection(Cur, margin, pageWidth - margin * 2,
                                   Sec.heading, Sec.text, 12, 8)))
  /\ secIdx' = secIdx + 1
  /\ UNCHANGED <<pc, gpt, fnVars>>

\* const contentBytes = await contentPdf.save()
SectionsReturn ==
  /\ pc = "sections" /\ secIdx = Len(gpt.sections)
  /\ pc' = "done"
  /\ UNCHANGED <<fnVars, renderVars>>

NextSections ==
  \/ SectionsTitle
  \/ SectionsDrawSection
  \/ SectionsReturn

SpecSections == InitSections /\ [][NextSections]_vars

\* The texts of the body lines (regular font) among the drawTexts lo..hi
RECURSIVE BodyTexts(_, _)
BodyTexts(lo, hi) ==
  IF lo > hi THEN <<>>
  ELSE IF lo = hi THEN (IF log[lo].font = "regular" THEN <<log[lo].text>> ELSE <<>>)
  ELSE BodyTexts(lo, Mid(lo, hi)) \o BodyTexts(Mid(lo, hi) + 1, hi)

\* The lines wrapLines returns for the bodies of the sections lo..hi
RECURSIVE WrappedBodies(_, _)
WrappedBodies(lo, hi) ==
  IF lo > hi THEN <<>>
  ELSE IF lo = hi THEN wrapLines(gpt.sections[lo].text, Regular, 12, pageWidth - margin * 2)
  ELSE WrappedBodies(lo, Mid(lo, hi)) \o WrappedBodies(Mid(lo, hi) + 1, hi)

\* C4: in a render by the handler of part_000 the body lines drawn for the
\* sections rendered so far are the lines wrapLines returns for their bodies,
\* each once and in order, also when a body does not fit on the page.
C4_EveryWrappedLineDrawnOnce ==
  pc \in {"sections", "done"} => BodyTexts(1, Len(log)) = WrappedBodies(1, secIdx)

(***************************************************************************)
(* SpecTriggerOrder: the handler of part_003 renders a payload whose       *)
(* trigger section names the categories of arg.order, each once and in     *)
(* that order, the category cat with arg.n[cat] numbered lines; a          *)
(* paragraph section may come before it and a benefits section after it.   *)
(***************************************************************************)
MaxGroupItems == 2     \* most numbered lines under a category header

Categories == {"aengste", "ziele", "vorbehalte"}

CategoryHeader == [aengste |-> "Typische Aengste:", ziele |-> "Typische Ziele:",
                   vorbehalte |-> "Typische Vorbehalte:"]

\* The H3 text drawTrigger draws for a category
CategoryLabel == [aengste |-> "Typische Aengste", ziele |-> "Typische Ziele",
                  vorbehalte |-> "Typische Vorbehalte"]

\* The sequences of distinct categories
CategoryOrders ==
  {o \in SeqsUpTo(Categories, 3) : \A i, j \in 1..Len(o) : i # j => o[i] # o[j]}

\* The lines of one category: its header and n numbered lines
CategoryLines(cat, n) ==
  <<CategoryHeader[cat]>> \o [k \in 1..n |-> NatToStr(k) \o ". " \o cat \o " " \o NatToStr(k)]

RECURSIVE OrderLines(_, _, _)
OrderLines(order, n, k) ==
  IF k > Len(order) THEN <<>>
  ELSE CategoryLines(order[k], n[order[k]]) \o OrderLines(order, n, k + 1)

OrderSections(a) ==
  (IF a.pre THEN <<[heading |-> "Dein Angebot", text |-> "M M"]>> ELSE <<>>)
    \o <<[heading |-> TriggerHeading, text |-> JoinWith(OrderLines(a.order, a.n, 1), "\n")]>>
    \o (IF a.post THEN <<[heading |-> "Vorteile deines Angebots",
                          text |-> "Typische Ziele:\n1. T ~ e"]>>
        ELSE <<>>)

InitTriggerOrder ==
  /\ pc = "idle"
  /\ arg \in [order : CategoryOrders, n : [Categories -> 0..MaxGroupItems],
              pre : BOOLEAN, post : BOOLEAN]
  /\ gpt = [title |-> "Titel", sections |-> OrderSections(arg)]
  /\ doc = 0 /\ page = 0 /\ y = 0 /\ secIdx = 0 /\ log = <<>>
  /\ ret = <<>>

SpecTriggerOrder == InitTriggerOrder /\ [][NextPaged]_vars

\* The texts of the H3 headings among the drawTexts lo..hi
RECURSIVE H3Texts(_, _)
H3Texts(lo, hi) ==
  IF lo > hi THEN <<>>
  ELSE IF lo = hi
  THEN (IF log[lo].font = "bold" /\ log[lo].size = SIZES.h3 THEN <<log[lo].text>> ELSE <<>>)
  ELSE H3Texts(lo, Mid(lo, hi)) \o H3Texts(Mid(lo, hi) + 1, hi)

\* The labels of the categories of order that have items, in the order of order
RECURSIVE LabelsInOrder(_, _, _)
LabelsInOrder(order, n, k) ==
  IF k > Len(order) THEN <<>>
  ELSE (IF n[order[k]] > 0 THEN <<CategoryLabel[order[k]]>> ELSE <<>>)
         \o LabelsInOrder(order, n, k + 1)

\* C11: when the handler of part_003 has rendered the trigger section, the
\* category groups drawn (their H3 headings) are the categories with items in
\* the order in which their header lines occur in the text.
C11_GroupsInInputOrder ==
  pc = "sections" /\ secIdx = (IF arg.pre THEN 2 ELSE 1) =>
    H3Texts(1, Len(log)) = LabelsInOrder(arg.order, arg.n, 1)

(***************************************************************************)
(* The second handler of api/create-pdf.js: its outline parsers.           *)
(***************************************************************************)
\* The category names of /^Typische\s+(Ängste|Ziele|Vorurteile).../i
GroupWords == <<"Aengste", "Ziele", "Vorurteile">>

\* /^Typische\s+(Ängste|Ziele|Vorurteile)\s*:?\s*$/i.exec(line): <<>> (no
\* match) or <<groupMatch[1]>>
groupMatch(line) ==
  LET AtEnd(p) == SkipWs(line, p) = Len(line) + 1
      Colon(p) == IF Ch(line, p) = ":" THEN AtEnd(p + 1) ELSE AtEnd(p)
      Group(j, ws) ==
        IF ws = {} THEN <<>>
        ELSE <<Slice(line, j, j + Len(GroupWords[CHOOSE w \in ws : TRUE]) - 1)>>
      Word(j) ==
        Group(j, {w \in DOMAIN GroupWords :
                    /\ j > Len("Typische") + 1
                    /\ OccursAtI(line, j, GroupWords[w])
                    /\ Colon(SkipWs(line, j + Len(GroupWords[w])))})
  IN  IF OccursAtI(line, 1, "Typische") THEN Word(SkipWs(line, Len("Typische") + 1))
      ELSE <<>>

\* Loop body of parseTriggerGroups; current is <<>> for null.
triggerGroupStep(st, rawLine) ==
  LET Line(line, m) ==
        IF m # <<>>
        THEN [blocks |-> st.blocks \o st.current,
              current |-> <<[title |-> "Typische " \o m[1], items |-> <<>>]>>]
        ELSE IF IsNumberedLine(line) /\ st.current # <<>>
        THEN [st EXCEPT !.current[1].items = Append(@, StripNumber(line))]
        ELSE st
      Trimmed(line) == Line(line, groupMatch(line))
  IN  Trimmed(Trim(rawLine))

RECURSIVE triggerGroupLoop(_, _, _, _)
triggerGroupLoop(st, lines, lo, hi) ==
  IF lo > hi THEN st
  ELSE IF lo = hi THEN triggerGroupStep(st, lines[lo])
  ELSE LET left == triggerGroupLoop(st, lines, lo, Mid(lo, hi))
       IN  IF left = left THEN triggerGroupLoop(left, lines, Mid(lo, hi) + 1, hi) ELSE st

parseTriggerGroups(raw) ==
  LET Blocks(end) == end.blocks \o end.current
      Lines(lines) ==
        Blocks(triggerGroupLoop([blocks |-> <<>>, current |-> <<>>], lines, 1, Len(lines)))
  IN  Lines(SplitLines(ReplaceAllI(raw, "\r", "")))

\* /^Typische\s+(Ängste|Ziele|Vorurteile)/i.test(s.trim())
isGroupHeader(s) ==
  LET Word(t, j) == /\ j > Len("Typische") + 1
                    /\ \E w \in DOMAIN GroupWords : OccursAtI(t, j, GroupWords[w])
      Trimmed(t) == OccursAtI(t, 1, "Typische") /\ Word(t, SkipWs(t, Len("Typische") + 1))
  IN  Trimmed(Trim(s))

\* Whether /\s*[-~]\s*Beispiele:?$/i matches line from position i on
ExamplesTailAt(line, i) ==
  LET Colon(p) == (IF Ch(line, p) = ":" THEN p + 1 ELSE p) = Len(line) + 1
      Word(k) == OccursAtI(line, k, "Beispiele") /\ Colon(k + Len("Beispiele"))
      Dash(j) == Ch(line, j) \in {"-", "~"} /\ Word(SkipWs(line, j + 1))
  IN  Dash(SkipWs(line, i))

\* line.replace(/\s*[-~]\s*Beispiele:?$/i, "")
StripExamplesTail(line) ==
  LET Leftmost(starts) == IF starts = {} THEN line ELSE Slice(line, 1, Min(starts) - 1)
  IN  Leftmost({i \in 1..Len(line) : ExamplesTailAt(line, i)})

\* Where a match of /\s[~-]\s*Beispiel\s*<d>\s*:\s*/i that starts at i ends (0:
\* no match).
ExampleMarkEnd(s, d, i) ==
  LET Colon(p) == IF Ch(s, p) = ":" THEN SkipWs(s, p + 1) ELSE 0
      Digit(p) == IF Ch(s, p) = d THEN Colon(SkipWs(s, p + 1)) ELSE 0
      Word(k) == IF OccursAtI(s, k, "Beispiel") THEN Digit(SkipWs(s, k + Len("Beispiel")))
                 ELSE 0
  IN  IF IsWs(Ch(s, i)) /\ Ch(s, i + 1) \in {"~", "-"} THEN Word(SkipWs(s, i + 2)) ELSE 0

\* content.split(regexEx<d>): one position of content
markSplitStep(st, s, d, i) ==
  LET Sep(e) == IF i >= st.from /\ e # 0
                THEN [from |-> e, acc |-> Append(st.acc, Slice(s, st.from, i - 1))]
                ELSE st
  IN  Sep(ExampleMarkEnd(s, d, i))

RECURSIVE markSplitLoop(_, _, _, _, _)
markSplitLoop(st, s, d, lo, hi) ==
  IF lo > hi THEN st
  ELSE IF lo = hi THEN markSplitStep(st, s, d, lo)
  ELSE LET left == markSplitLoop(st, s, d, lo, Mid(lo, hi))
       IN  IF left = left THEN markSplitLoop(left, s, d, Mid(lo, hi) + 1, hi) ELSE st

\* content.split(regexEx<d>)
SplitOnExampleMark(s, d) ==
  LET Pieces(end) == Append(end.acc, From(s, end.from))
  IN  Pieces(markSplitLoop([from |-> 1, acc |-> <<>>], s, d, 1, Len(s)))

\* The item of a numbered line whose text is content
benefitsItem(content) ==
  LET Item(title, ex1, ex2) ==
        [title |-> title,
         examples |-> (IF ex1 # "" THEN <<ex1>> ELSE <<>>)
                        \o (IF ex2 # "" THEN <<ex2>> ELSE <<>>)]
      Second(t, parts) ==
        IF Len(parts) >= 2 THEN Item(Trim(t), Trim(parts[1]), Trim(parts[2]))
        ELSE Item(Trim(t), Trim(parts[1]), "")
      First(parts) ==
        IF Len(parts) >= 2 THEN Second(parts[1], SplitOnExampleMark(parts[2], "2"))
        ELSE Item(content, "", "")
  IN  First(SplitOnExampleMark(content, "1"))

\* Loop body of parseBenefitsGroups; current is <<>> for null.
benefitsGroupStep(st, rawLine) ==
  LET Line(line) ==
        IF line = "" THEN st
        ELSE IF isGroupHeader(line)
        THEN [blocks |-> st.blocks \o st.current,
              current |-> <<[title |-> Trim(StripExamplesTail(line)), items |-> <<>>]>>]
        ELSE IF IsNumberedLine(line) /\ st.current # <<>>
        THEN [st EXCEPT !.current[1].items = Append(@, benefitsItem(StripNumber(line)))]
        ELSE st
  IN  Line(Trim(rawLine))

RECURSIVE benefitsGroupLoop(_, _, _, _)
benefitsGroupLoop(st, lines, lo, hi) ==
  IF lo > hi THEN st
  ELSE IF lo = hi THEN benefitsGroupStep(st, lines[lo])
  ELSE LET left == benefitsGroupLoop(st, lines, lo, Mid(lo, hi))
       IN  IF left = left THEN benefitsGroupLoop(left, lines, Mid(lo, hi) + 1, hi) ELSE st

parseBenefitsGroups(raw) ==
  LET Blocks(end) == end.blocks \o end.current
      Lines(lines) ==
        Blocks(benefitsGroupLoop([blocks |-> <<>>, current |-> <<>>], lines, 1, Len(lines)))
  IN  Lines(SplitLines(ReplaceAllI(raw, "\r", "")))

(***************************************************************************)
(* The second handler of api/create-pdf.js: layout constants, draw         *)
(* helpers and the section loop.  A draw helper works on its own copies of *)
(* page and y and returns y alone.                                         *)
(***************************************************************************)
FONT_SIZE == [title |-> 28, shl |-> 18, sub |-> 14, body |-> 12]

GAP == [afterTitle |-> 16, afterSHL |-> 8, afterParagraph |-> 30, line |-> 4,
        betweenGroups |-> 16, afterTriggerBlock |-> 30, indent |-> 16]

\* [page, y] = ensureSpace(..., size + GAP.line, ...); page.drawText(ln, ...);
\* y -= size + GAP.line
ensuredLine(c, ln, x, size) ==
  [drawText(ensureSpaceCb(c, size + GAP.line), ln, x, size, "regular")
     EXCEPT !.y = @ - (size + GAP.line)]

RECURSIVE ensuredLines(_, _, _, _, _, _)
ensuredLines(c, lines, x, size, lo, hi) ==
  IF lo > hi THEN c
  ELSE IF lo = hi THEN ensuredLine(c, lines[lo], x, size)
  ELSE LET left == ensuredLines(c, lines, x, size, lo, Mid(lo, hi))
       IN  IF left = left THEN ensuredLines(left, lines, x, size, Mid(lo, hi) + 1, hi)
           ELSE c

drawTextBlock(c, text, x, size) ==
  LET Lines(lines) == ensuredLines(c, lines, x, size, 1, Len(lines))
  IN  Lines(wrap(text, Regular, size, MAX_W))

drawSHL(c, text, x) ==
  [drawText(ensureSpaceCb(c, FONT_SIZE.shl + GAP.afterSHL), text, x, FONT_SIZE.shl, "bold")
     EXCEPT !.y = @ - (FONT_SIZE.shl + GAP.afterSHL)]

drawSubSHL(c, text, x) ==
  [drawText(ensureSpaceCb(c, FONT_SIZE.sub + GAP.line), text, x, FONT_SIZE.sub, "bold")
     EXCEPT !.y = @ - (FONT_SIZE.sub + GAP.line)]

\* A label at x with the first line of a text beside it and the other lines of
\* the text under the first one.  The texts of the parsers are not blank, so
\* lines has a first line.
labelledText(c, label, labelW, lines, x, size) ==
  LET First(c1) ==
        [drawText(drawText(c1, label, x, size, "regular"),
                  lines[1], x + labelW, size, "regular")
           EXCEPT !.y = @ - (size + GAP.line)]
  IN  ensuredLines(First(ensureSpaceCb(c, size + GAP.line)), lines, x + labelW, size,
                   2, Len(lines))

\* The row(s) of `${idx}. ` and a text wrapped beside it
numberedText(c, idx, text, x) ==
  LET Text(prefix, prefixW) ==
        labelledText(c, prefix, prefixW,
                     wrap(text, Regular, FONT_SIZE.body, MAX_W - prefixW), x, FONT_SIZE.body)
      Prefix(prefix) == Text(prefix, widthOfTextAtSize(Regular, prefix, FONT_SIZE.body))
  IN  Prefix(NatToStr(idx) \o ". ")

RECURSIVE numberedTexts(_, _, _, _, _)
numberedTexts(c, items, x, lo, hi) ==
  IF lo > hi THEN c
  ELSE IF lo = hi THEN numberedText(c, lo, items[lo], x)
  ELSE LET left == numberedTexts(c, items, x, lo, Mid(lo, hi))
       IN  IF left = left THEN numberedTexts(left, items, x, Mid(lo, hi) + 1, hi) ELSE c

\* drawNumberedList of the second handler
drawNumberedListCb(c, items, x) == numberedTexts(c, items, x, 1, Len(items))

\* Loop body of  for (let e = 0; e < it.examples.length; e++)
exampleText(c, e, ex, x) ==
  LET Text(label, labelW) ==
        labelledText(c, label, labelW,
                     wrap(ex, Regular, FONT_SIZE.body, MAX_W - GAP.indent - labelW),
                     x + GAP.indent, FONT_SIZE.body)
      Label(label) == Text(label, widthOfTextAtSize(Regular, label, FONT_SIZE.body))
  IN  Label("- Bsp. " \o NatToStr(e) \o ": ")

RECURSIVE exampleTexts(_, _, _, _, _)
exampleTexts(c, examples, x, lo, hi) ==
  IF lo > hi THEN c
  ELSE IF lo = hi THEN exampleText(c, lo, examples[lo], x)
  ELSE LET left == exampleTexts(c, examples, x, lo, Mid(lo, hi))
       IN  IF left = left THEN exampleTexts(left, examples, x, Mid(lo, hi) + 1, hi) ELSE c

\* Loop body of drawNumberedListWithExamples
itemWithExamples(c, idx, it, x) ==
  [exampleTexts(numberedText(c, idx, it.title, x), it.examples, x, 1, Len(it.examples))
     EXCEPT !.y = @ - GAP.line]

RECURSIVE itemsWithExamples(_, _, _, _, _)
itemsWithExamples(c, items, x, lo, hi) ==
  IF lo > hi THEN c
  ELSE IF lo = hi THEN itemWithExamples(c, lo, items[lo], x)
  ELSE LET left == itemsWithExamples(c, items, x, lo, Mid(lo, hi))
       IN  IF left = left THEN itemsWithExamples(left, items, x, Mid(lo, hi) + 1, hi) ELSE c

drawNumberedListWithExamples(c, items, x) == itemsWithExamples(c, items, x, 1, Len(items))

\* y = drawX(contentPdf, page, ...): the handler takes the y a helper returns
\* and keeps the page it has.
returnedY(c, r) == [r EXCEPT !.page = c.page]

\* Loop body of the trigger branch's  for (let i = 0; i < groups.length; i++)
triggerGroup(c, group) ==
  LET List(c1) == returnedY(c1, drawNumberedListCb(c1, group.items, MARGIN))
      Gap(c2) == [c2 EXCEPT !.y = @ - GAP.betweenGroups]
  IN  Gap(List(returnedY(c, drawSubSHL(c, group.title, MARGIN))))

RECURSIVE triggerGroups(_, _, _, _)
triggerGroups(c, groups, lo, hi) ==
  IF lo > hi THEN c
  ELSE IF lo = hi THEN triggerGroup(c, groups[lo])
  ELSE LET left == triggerGroups(c, groups, lo, Mid(lo, hi))
       IN  IF left = left THEN triggerGroups(left, groups, Mid(lo, hi) + 1, hi) ELSE c

\* Loop body of the benefits branch's  for (let i = 0; i < groups.length; i++)
benefitsGroup(c, group) ==
  LET List(c1) == returnedY(c1, drawNumberedListWithExamples(c1, group.items, MARGIN))
      Gap(c2) == [c2 EXCEPT !.y = @ - GAP.betweenGroups]
  IN  Gap(List(returnedY(c, drawSubSHL(c, group.title, MARGIN))))

RECURSIVE benefitsGroups(_, _, _, _)
benefitsGroups(c, groups, lo, hi) ==
  IF lo > hi THEN c
  ELSE IF lo = hi THEN benefitsGroup(c, groups[lo])
  ELSE LET left == benefitsGroups(c, groups, lo, Mid(lo, hi))
       IN  IF left = left THEN benefitsGroups(left, groups, Mid(lo, hi) + 1, hi) ELSE c

\* /^Wichtige Trigger/i.test(heading)
IsTriggerHeading(heading) == OccursAtI(heading, 1, "Wichtige Trigger")

\* /^Vorteile\s+deines\s+Angebots/i.test(heading)
IsBenefitsHeading(heading) ==
  LET Third(k) == k > Len("Vorteile") + 1 + Len("deines") /\ OccursAtI(heading, k, "Angebots")
      Second(j) == /\ j > Len("Vorteile") + 1
                   /\ OccursAtI(heading, j, "deines")
                   /\ SkipWs(heading, j + Len("deines")) > j + Len("deines")
                   /\ Third(SkipWs(heading, j + Len("deines")))
  IN  OccursAtI(heading, 1, "Vorteile") /\ Second(SkipWs(heading, Len("Vorteile") + 1))

(***************************************************************************)
(* SpecSecond: the second handler renders a payload of up to               *)
(* MaxSecondSections sections.  ret holds the groups the section rendered  *)
(* last was parsed into (the handler's `groups`).                          *)
(***************************************************************************)
MaxSecondSections == 3  \* most sections of a payload
TextOver == 45          \* lines of a text longer than a page

SecondSectionPool ==
  { [heading |-> "Dein Angebot", text |-> "M M"],
    [heading |-> " Deine Zielgruppe", text |-> Repeat("M", " ", TextOver)],
    [heading |-> "Wichtige Trigger fuer deine Entscheider",
     text |-> "Typische Aengste:\n1. Punkt A\n2. M M\n\nTypische Ziele:\n1. Ziel A"],
    [heading |-> "wichtige trigger",
     text |-> "Typische Aengste:\nTypische Ziele:\n1. Ziel A\nTypische Vorurteile:"],
    [heading |-> "Vorteile  deines Angebots",
     text |-> "Typische Aengste ~ Beispiele:\n1. T ~ Beispiel 1: a ~ Beispiel 2: M M\n2. U\n\nTypische Ziele - Beispiele:"] }

SecondPayloads ==
  [title : {"", "Titel"}, sections : SeqsUpTo(SecondSectionPool, MaxSecondSections)]

InitSecond ==
  /\ pc = "idle"
  /\ gpt \in SecondPayloads
  /\ doc = 0 /\ page = 0 /\ y = 0 /\ secIdx = 0 /\ log = <<>>
  /\ arg = <<>> /\ ret = <<>>

\* let page = contentPdf.addPage([A4.w, A4.h]); let y = A4.h - MARGIN; H1
SecondTitle ==
  /\ pc = "idle"
  /\ LET Title(c) == [drawText(c, IF gpt.title # "" THEN gpt.title ELSE "Ergebnis",
                               MARGIN, FONT_SIZE.title, "bold")
                        EXCEPT !.y = @ - (FONT_SIZE.title + GAP.afterTitle)]
     IN  SetCur(Title(addPageCb(Cur)))
  /\ pc' = "sections"
  /\ UNCHANGED <<gpt, secIdx, fnVars>>

\* const heading = String(sec.heading || "").trim()
SecondHeading == Trim(Sec.heading)

\* y = drawSHL(contentPdf, page, fonts, heading, MARGIN, y)
SecondSHL == returnedY(Cur, drawSHL(Cur, SecondHeading, MARGIN))

SecondTriggerSection ==
  /\ pc = "sections" /\ secIdx < Len(gpt.sections)
  /\ IsTriggerHeading(SecondHeading)
  /\ LET After(c) == [c EXCEPT !.y = @ + GAP.betweenGroups - GAP.afterTriggerBlock]
         Groups(groups) ==
           /\ SetCur(After(triggerGroups(SecondSHL, groups, 1, Len(groups))))
           /\ ret' = groups
     IN  Groups(parseTriggerGroups(Sec.text))
  /\ secIdx' = secIdx + 1
  /\ UNCHANGED <<pc, gpt, arg>>

SecondBenefitsSection ==
  /\ pc = "sections" /\ secIdx < Len(gpt.sections)
  /\ ~IsTriggerHeading(SecondHeading) /\ IsBenefitsHeading(SecondHeading)
  /\ LET After(c) == [c EXCEPT !.y = @ + GAP.betweenGroups - GAP.afterParagraph]
         Groups(groups) ==
           /\ SetCur(After(benefitsGroups(SecondSHL, groups, 1, Len(groups))))
           /\ ret' = groups
     IN  Groups(parseBenefitsGroups(Sec.text))
  /\ secIdx' = secIdx + 1
  /\ UNCHANGED <<pc, gpt, arg>>

\* Default: y = drawTextBlock(...); y -= GAP.afterParagraph
SecondTextSection ==
  /\ pc = "sections" /\ secIdx < Len(gpt.sections)
  /\ ~IsTriggerHeading(SecondHeading) /\ ~IsBenefitsHeading(SecondHeading)
  /\ LET After(c) == [c EXCEPT !.y = @ - GAP.afterParagraph]
         Block(c) == returnedY(c, drawTextBlock(c, Sec.text, MARGIN, FONT_SIZE.body))
     IN  SetCur(After(Block(SecondSHL)))
  /\ secIdx' = secIdx + 1
  /\ UNCHANGED <<pc, gpt, fnVars>>

\* const contentBytes = await contentPdf.save()
SecondReturn ==
  /\ pc = "sections" /\ secIdx = Len(gpt.sections)
  /\ pc' = "done"
  /\ UNCHANGED <<fnVars, renderVars>>

NextSecond ==
  \/ SecondTitle
  \/ SecondTriggerSection
  \/ SecondBenefitsSection
  \/ SecondTextSection
  \/ SecondReturn

SpecSecond == InitSecond /\ [][NextSecond]_vars

\* C12: in a render by the second handler no parsed group has an empty items
\* list, and every sub-headline drawn is followed by the first item of its
\* group (the prefix "1. ").
C12_NoEmptyGroup ==
  /\ \A g \in 1..Len(ret) : ret[g].items # <<>>
  /\ \A k \in 1..Len(log) :
       log[k].font = "bold" /\ log[k].size = FONT_SIZE.sub =>
         k < Len(log) /\ log[k + 1].font = "regular" /\ log[k + 1].text = "1. "

\* C17: in a render by the second handler every drawText goes to the page added
\* last: the pages of the drawTexts never go back, and the last drawText is on
\* the last page of the document.
C17_DrawsOnNewestPage ==
  /\ \A k \in 1..(Len(log) - 1) : log[k].page <= log[k + 1].page
  /\ log # <<>> => log[Len(log)].page = doc

(***************************************************************************)
(* Claims on the renders of renderGptContent (first handler).              *)
(***************************************************************************)
\* The last bold drawText of one of the sizes before the drawText k (0: none)
LastBoldBefore(k, sizes) ==
  LET above == {j \in 1..(k - 1) : log[j].font = "bold" /\ log[j].size \in sizes}
  IN  IF above = {} THEN 0 ELSE CHOOSE j \in above : \A i \in above : i <= j

\* Whether the drawText k is the number prefix of an item
IsNumberPrefix(k) == log[k].font = "bold" /\ log[k].size = 12

\* Whether the drawText k belongs to a section with the benefits heading
InBenefitsSection(k) ==
  /\ LastBoldBefore(k, {18}) # 0
  /\ log[LastBoldBefore(k, {18})].text = HeadingBenefits

\* C13: in the benefits branch of renderGptContent the number prefixes drawn
\* under a category label are "1. ", "2. ", ... in order: the k-th item of a
\* group has the prefix "k. ".
C13_BenefitItemsNumbered ==
  \A k \in 1..Len(log) :
    IsNumberPrefix(k) /\ InBenefitsSection(k) =>
      log[k].text =
        NatToStr(Cardinality({j \in (LastBoldBefore(k, {14, 18}) + 1)..k : IsNumberPrefix(j)}))
          \o ". "

(***************************************************************************)
(* The branch renderGptContent takes for a section, over every pairing of  *)
(* a heading with a body text.                                             *)
(***************************************************************************)
RoutingHeadings == {"Dein Angebot", HeadingTrigger, HeadingBenefits}

RoutingTexts ==
  { "a a",
    "Typische Ziele:\n1. a\n2. b",
    "Typische Ziele :\n1. T\n- e\n2. U" }

RoutingPool == [heading : RoutingHeadings, text : RoutingTexts]

InitRouting ==
  /\ pc = "idle"
  /\ gpt \in [title : {"", "Titel"}, sections : SeqsUpTo(RoutingPool, MaxSections)]
  /\ doc = 0 /\ page = 0 /\ y = 0 /\ secIdx = 0 /\ log = <<>>
  /\ arg = <<>> /\ ret = <<>>

SpecRouting == InitRouting /\ [][NextRender]_vars

\* The texts drawn after the drawText h, in drawing order
TextsAfter(h) == [k \in 1..(Len(log) - h) |-> log[h + k].text]

\* C14: the branch is chosen from the heading alone: a section whose heading
\* is neither the trigger heading nor the benefits heading is drawn as a plain
\* paragraph, its sub-heading followed by exactly the wrapped lines of its
\* text in the regular font, whatever the text contains.
C14_RoutedByHeading ==
  pc = "sections" /\ secIdx >= 1
    /\ gpt.sections[secIdx].heading \notin {HeadingTrigger, HeadingBenefits} =>
      LET h == LastBoldBefore(Len(log) + 1, {18})
      IN  /\ \A k \in (h + 1)..Len(log) : log[k].font = "regular"
          /\ TextsAfter(h) = wrapLines(gpt.sections[secIdx].text, Regular, 12, maxWidth)

(***************************************************************************)
(* mergeWithStatics of create-pdf.js: the cover, the generated pages and   *)
(* the two trailing templates copied into one document.  A page is the     *)
(* record [src, idx]: the idx-th page of the document src.  A static file  *)
(* that cannot be read or loaded is skipped (try { ... } catch {}).        *)
(***************************************************************************)
MaxStaticPages == 2    \* most pages of a static file
MaxContentPages == 3   \* most pages of the generated document

StaticFiles ==
  {[readable |-> FALSE, pages |-> 0]}
    \cup {[readable |-> TRUE, pages |-> n] : n \in 1..MaxStaticPages}

\* merged.copyPages(src, src.getPageIndices()): the pages of src by index
copyPages(src, n) == [i \in 1..n |-> [src |-> src, idx |-> i]]

\* The pages put in front of the document instead of at its end
addPagesInFront(merged, pages) == pages \o merged

\* pages.forEach(p => merged.addPage(p)): each page appended at the end
addPages(merged, pages) == merged \o pages

\* try { await add(await fs.readFile(file)) } catch {}
add(merged, name, file) ==
  IF file.readable THEN addPages(merged, copyPages(name, file.pages)) ELSE merged

InitMerge ==
  /\ pc = "create"
  /\ arg \in [deckblatt : StaticFiles, contentBytes : 1..MaxContentPages,
              angebot1 : StaticFiles, angebot2 : StaticFiles]
  /\ ret = <<>>
  /\ IdleRender

\* const merged = await PDFDocument.create(); add(deckblatt.pdf)
MergeCover ==
  /\ pc = "create"
  /\ ret' = add(<<>>, "deckblatt", arg.deckblatt)
  /\ pc' = "content"
  /\ UNCHANGED <<arg, renderVars>>

\* copyPages(gptDoc, gptDoc.getPageIndices()).forEach(p => merged.addPage(p))
MergeContent ==
  /\ pc = "content"
  /\ ret' = addPages(ret, copyPages("content", arg.contentBytes))
  /\ pc' = "angebot1"
  /\ UNCHANGED <<arg, renderVars>>

MergeAngebot1 ==
  /\ pc = "angebot1"
  /\ ret' = add(ret, "angebot1", arg.angebot1)
  /\ pc' = "angebot2"
  /\ UNCHANGED <<arg, renderVars>>

MergeAngebot2 ==
  /\ pc = "angebot2"
  /\ ret' = add(ret, "angebot2", arg.angebot2)
  /\ pc' = "save"
  /\ UNCHANGED <<arg, renderVars>>

\* return merged.save()
MergeSave ==
  /\ pc = "save"
  /\ pc' = "saved"
  /\ UNCHANGED <<arg, ret, renderVars>>

NextMerge ==
  \/ MergeCover
  \/ MergeContent
  \/ MergeAngebot1
  \/ MergeAngebot2
  \/ MergeSave

SpecMerge == InitMerge /\ [][NextMerge]_vars

\* The place of a source document in the merged one
MergeRank(src) ==
  CASE src = "deckblatt" -> 1
    [] src = "content" -> 2
    [] src = "angebot1" -> 3
    [] src = "angebot2" -> 4

\* The number of pages of a source document that were to be copied
MergePagesOf(src) ==
  IF src = "content" THEN arg.contentBytes
  ELSE IF arg[src].readable THEN arg[src].pages ELSE 0

\* The positions of the merged document that hold a page of src
MergePositions(src) == {k \in 1..Len(ret) : ret[k].src = src}

\* C15: the saved document holds the cover pages, then the generated pages,
\* then the pages of angebot1.pdf, then those of angebot2.pdf: the pages are
\* ordered by source and, within a source, by index, and every page of every
\* source (each generated page above all) occurs exactly once.
C15_MergeOrder ==
  pc = "saved" =>
    /\ \A i, j \in 1..Len(ret) :
         i < j => \/ MergeRank(ret[i].src) < MergeRank(ret[j].src)
                  \/ ret[i].src = ret[j].src /\ ret[i].idx < ret[j].idx
    /\ \A src \in {"deckblatt", "content", "angebot1", "angebot2"} :
         /\ Cardinality(MergePositions(src)) = MergePagesOf(src)
         /\ {ret[k].idx : k \in MergePositions(src)} = 1..MergePagesOf(src)

\* A saved document with a cover, several generated pages and both templates
C15_Witness ==
  /\ pc = "saved"
  /\ arg.deckblatt.readable /\ arg.angebot1.readable /\ arg.angebot2.readable
  /\ arg.contentBytes >= 2 /\ arg.angebot1.pages >= 2
  /\ Len(ret) = arg.deckblatt.pages + arg.contentBytes
                  + arg.angebot1.pages + arg.angebot2.pages

(***************************************************************************)
(* parseNestedListBlock over blocks of written-out lines: a title repeated *)
(* in another case, numbered lines with one or two inline examples after   *)
(* an en dash or a hyphen, and bullet lines.                               *)
(***************************************************************************)
MaxNestedLines == 4    \* most lines of a block under the header

\* The lines of a block without their numbers: a title, its inline examples
\* and the separator before each of them (a bullet line has no title).
NestedLinePool ==
  { [title |-> "Titel X", exs |-> <<"Beispiel 1">>, sep |-> "~"],
    [title |-> "titel x", exs |-> <<"Beispiel 2">>, sep |-> "~"],
    [title |-> "Y", exs |-> <<>>, sep |-> "~"],
    [title |-> "", exs |-> <<"c">>, sep |-> "-"],
    [title |-> "Z", exs |-> <<"d", "e">>, sep |-> "~"],
    [title |-> "W", exs |-> <<"d", "e">>, sep |-> "-"] }

IsNumberedEntry(l) == l.title # ""

\* The text of line i of a block
NestedLineText(l, i) ==
  IF IsNumberedEntry(l)
  THEN NatToStr(i) \o ". "
         \o JoinWith(<<l.title>> \o l.exs, " " \o l.sep \o " ")
  ELSE l.sep \o " " \o l.exs[1]

NestedLinesText(lines) ==
  JoinWith(<<BlockHeader>> \o [i \in 1..Len(lines) |-> NestedLineText(lines[i], i)], "\n")

InitNestedLines ==
  /\ pc = "start"
  /\ arg \in [fn : {"parseNestedListBlock"},
              lines : SeqsUpTo(NestedLinePool, MaxNestedLines)]
  /\ ret = <<>>
  /\ IdleRender

CallParseNestedLines ==
  /\ pc = "start"
  /\ ret' = <<parseNestedListBlock(NestedLinesText(arg.lines))>>
  /\ pc' = "returned"
  /\ UNCHANGED <<arg, renderVars>>

NextNestedLines == CallParseNestedLines

SpecNestedLines == InitNestedLines /\ [][NextNestedLines]_vars

\* The returned items whose title is t, compared without case
ItemsTitled(t) ==
  {k \in 1..Len(ret[1].items) : toLowerCase(ret[1].items[k].title) = toLowerCase(t)}

\* Whether lines i and i + 1 are numbered lines of one title (compared
\* without case), each with one inline example after an en dash, and no
\* line before them has that title.
IsRepeatedTitle(lines, i) ==
  /\ i + 1 <= Len(lines)
  /\ IsNumberedEntry(lines[i]) /\ IsNumberedEntry(lines[i + 1])
  /\ toLowerCase(lines[i].title) = toLowerCase(lines[i + 1].title)
  /\ lines[i].sep = "~" /\ lines[i + 1].sep = "~"
  /\ Len(lines[i].exs) = 1 /\ Len(lines[i + 1].exs) = 1
  /\ \A j \in 1..(i - 1) : toLowerCase(lines[j].title) # toLowerCase(lines[i].title)

\* C16: when a title occurs on two consecutive numbered lines, each with an
\* inline example of its own, parseNestedListBlock returns one item for it,
\* with the title as first written and the two examples in input order; the
\* titles are compared without case.
C16_RepeatedTitleMerged ==
  pc = "returned" =>
    \A i \in 1..Len(arg.lines) :
      IsRepeatedTitle(arg.lines, i) =>
        /\ Cardinality(ItemsTitled(arg.lines[i].title)) = 1
        /\ \A k \in ItemsTitled(arg.lines[i].title) :
             /\ ret[1].items[k].title = arg.lines[i].title
             /\ ret[1].items[k].examples
                  = <<arg.lines[i].exs[1], arg.lines[i + 1].exs[1]>>

\* "1. Titel X ~ Beispiel 1" and "2. titel x ~ Beispiel 2" come back as one
\* item
C16_Witness ==
  /\ pc = "returned"
  /\ Len(arg.lines) = 2
  /\ arg.lines[1].title = "Titel X" /\ arg.lines[2].title = "titel x"
  /\ ret[1].items = <<[title |-> "Titel X", examples |-> <<"Beispiel 1", "Beispiel 2">>]>>

\* The nearest numbered line before line i (0: none)
NearestNumbered(lines, i) ==
  LET above == {j \in 1..(i - 1) : IsNumberedEntry(lines[j])}
  IN  IF above = {} THEN 0 ELSE CHOOSE j \in above : \A n \in above : n <= j

\* The bullet lines of a block that stand under a numbered line
BulletsUnderItems(lines) ==
  {i \in 1..Len(lines) : ~IsNumberedEntry(lines[i]) /\ NearestNumbered(lines, i) # 0}

\* C19: every bullet line is an example of the item of the nearest numbered
\* line before it, also when that line repeats an earlier title (unless that
\* item has its two examples already), and no item has the example of a
\* bullet line that does not stand under a numbered line of its title.
C19_BulletUnderNearestItem ==
  pc = "returned" /\ (\A n \in 1..Len(arg.lines) : Len(arg.lines[n].exs) <= 1) =>
    /\ \A i \in BulletsUnderItems(arg.lines) :
         \E k \in ItemsTitled(arg.lines[NearestNumbered(arg.lines, i)].title) :
           \/ \E e \in 1..Len(ret[1].items[k].examples) :
                ret[1].items[k].examples[e] = arg.lines[i].exs[1]
           \/ Len(ret[1].items[k].examples) = 2
    /\ \A k \in 1..Len(ret[1].items) :
         \A e \in 1..Len(ret[1].items[k].examples) :
           ret[1].items[k].examples[e] = "c" =>
             \E i \in BulletsUnderItems(arg.lines) :
               k \in ItemsTitled(arg.lines[NearestNumbered(arg.lines, i)].title)

\* C20: a numbered line "<n>. <title> ~ <ex1> ~ <ex2>", the separator an en
\* dash or a hyphen between spaces, gives an item of that title with the two
\* examples ex1 and ex2 (the line being the first of its title).
C20_TwoInlineExamples ==
  pc = "returned" =>
    \A i \in 1..Len(arg.lines) :
      /\ Len(arg.lines[i].exs) = 2
      /\ \A j \in 1..(i - 1) : arg.lines[j].title # arg.lines[i].title
      => \E k \in 1..Len(ret[1].items) :
           /\ ret[1].items[k].title = arg.lines[i].title
           /\ ret[1].items[k].examples = arg.lines[i].exs

(***************************************************************************)
(* parseBenefitsBlock of part_002: when two lines are paired.              *)
(***************************************************************************)
\* The numbered lines of a flat block
FlatNumbered(a) == {i \in 1..a.n : FlatShape(a, i) # "bullet"}

\* C18: two consecutive numbered lines are paired only in a block with no
\* bullet lines and at least 6 numbered lines; in a block with bullet lines
\* or with fewer than 6 numbered lines every numbered line is an item of its
\* own (the first five of them are returned).
C18_PairingOnlyWhenFlat ==
  pc = "returned"
    /\ (Cardinality(FlatNumbered(arg)) < 6 \/ FlatNumbered(arg) # 1..arg.n) =>
      /\ Len(ret[1]) = Min({5, Cardinality(FlatNumbered(arg))})
      /\ \A k \in 1..Len(ret[1]) :
           \E i \in FlatNumbered(arg) :
             /\ Cardinality({j \in FlatNumbered(arg) : j <= i}) = k
             /\ ret[1][k].title = FlatTitle(i)

(***************************************************************************)
(* parseTitleWithBullets of create-pdf.js over blocks of numbered lines,   *)
(* bullet lines, other lines and empty lines.                              *)
(***************************************************************************)
MaxTitleLines == 4     \* most lines of a block

\* The lines of a block without their numbers: what is written (raw) and what
\* it reads as once trimmed (text).
TitleLinePool ==
  { [kind |-> "numbered", raw |-> "T", text |-> "T"],
    [kind |-> "numbered", raw |-> "U ", text |-> "U"],
    [kind |-> "bullet", raw |-> "- e", text |-> "e"],
    [kind |-> "other", raw |-> "more", text |-> "more"],
    [kind |-> "other", raw |-> " and so ", text |-> "and so"],
    [kind |-> "empty", raw |-> "", text |-> ""] }

TitleLineText(l, i) ==
  IF l.kind = "numbered" THEN NatToStr(i) \o ". " \o l.raw ELSE l.raw

TitleBlock(lines) ==
  JoinWith([i \in 1..Len(lines) |-> TitleLineText(lines[i], i)], "\n")

InitTitleBullets ==
  /\ pc = "start"
  /\ arg \in [fn : {"parseTitleWithBullets"},
              lines : SeqsUpTo(TitleLinePool, MaxTitleLines)]
  /\ ret = <<>>
  /\ IdleRender

CallParseTitleWithBullets ==
  /\ pc = "start"
  /\ ret' = <<parseTitleWithBullets(TitleBlock(arg.lines))>>
  /\ pc' = "returned"
  /\ UNCHANGED <<arg, renderVars>>

NextTitleBullets == CallParseTitleWithBullets

SpecTitleBullets == InitTitleBullets /\ [][NextTitleBullets]_vars

\* The numbered lines of a block, and the one a line stands under (0: none)
NumberedLines(lines) == {i \in 1..Len(lines) : lines[i].kind = "numbered"}

CurrentNumbered(lines, i) ==
  LET above == {j \in NumberedLines(lines) : j <= i}
  IN  IF above = {} THEN 0 ELSE CHOOSE j \in above : \A n \in above : n <= j

\* The texts of the lines lo..hi of one kind that stand under the numbered
\* line n, in input order
RECURSIVE TextsUnder(_, _, _, _, _)
TextsUnder(lines, n, kind, lo, hi) ==
  IF lo > hi THEN <<>>
  ELSE (IF lines[lo].kind = kind /\ CurrentNumbered(lines, lo) = n
        THEN <<lines[lo].text>> ELSE <<>>)
         \o TextsUnder(lines, n, kind, lo + 1, hi)

\* Whether a group is returned for lines before the first numbered line
HasLeadingGroup(lines) ==
  \E i \in 1..Len(lines) :
    lines[i].kind \in {"bullet", "other"} /\ CurrentNumbered(lines, i) = 0

\* The place in the result of the group of the numbered line n
GroupOf(lines, n) ==
  Cardinality({j \in NumberedLines(lines) : j <= n})
    + (IF HasLeadingGroup(lines) THEN 1 ELSE 0)

\* C21: a non-empty line that is neither numbered nor a bullet is appended,
\* after one space, to the title of the item of the nearest numbered line
\* before it, also after bullet lines of that item; it is never dropped and
\* never an example: the title of every item is the text of its numbered line
\* followed by all such lines under it, and its examples are its bullet lines.
C21_ContinuationJoinsTitle ==
  pc = "returned" =>
    \A n \in NumberedLines(arg.lines) :
      /\ GroupOf(arg.lines, n) <= Len(ret[1])
      /\ ret[1][GroupOf(arg.lines, n)].title
           = JoinWith(<<arg.lines[n].text>>
                        \o TextsUnder(arg.lines, n, "other", 1, Len(arg.lines)), " ")
      /\ ret[1][GroupOf(arg.lines, n)].bullets
           = TextsUnder(arg.lines, n, "bullet", 1, Len(arg.lines))

\* "1. T", "- e", "more": the line after the bullet joins the title
C21_Witness ==
  /\ pc = "returned"
  /\ Len(arg.lines) = 3
  /\ arg.lines[1].kind = "numbered" /\ arg.lines[2].kind = "bullet"
  /\ arg.lines[3].kind = "other"
  /\ ret[1] = <<[title |-> "T more", bullets |-> <<"e">>]>>

(***************************************************************************)
(* parseNestedListBlock over blocks with different first lines.            *)
(***************************************************************************)
MaxHeaderLines == 2    \* most lines of a block under its first line

\* First lines of a block; "" is a block that starts with its items.
NestedHeaderPool ==
  { "Typische Aengste ~ Beispiele:",
    "Typische Ziele ~ Beispiele",
    "Typische Vorurteile ~ Beispiele:",
    "typische vorurteile ~ beispiele:",
    "Typische Ziele:",
    "Typische Ziele - Beispiele:",
    "Typische Fragen",
    "" }

NestedHeaderText(a) ==
  JoinWith(<<a.header>> \o [i \in 1..Len(a.lines) |-> NestedLineText(a.lines[i], i)], "\n")

InitNestedHeader ==
  /\ pc = "start"
  /\ arg \in [fn : {"parseNestedListBlock"}, header : NestedHeaderPool,
              lines : SeqsUpTo(NestedLinePool, MaxHeaderLines)]
  /\ ret = <<>>
  /\ IdleRender

CallParseNestedHeader ==
  /\ pc = "start"
  /\ ret' = <<parseNestedListBlock(NestedHeaderText(arg))>>
  /\ pc' = "returned"
  /\ UNCHANGED <<arg, renderVars>>

NextNestedHeader == CallParseNestedHeader

SpecNestedHeader == InitNestedHeader /\ [][NextNestedHeader]_vars

CanonicalLabels == {LabelAengste, LabelZiele, "Typische Vorbehalte"}

\* C22: the header parseNestedListBlock returns is empty or one of the three
\* canonical labels: "Vorurteile" has become "Vorbehalte", and "~ Beispiele"
\* and a trailing colon are gone.
C22_HeaderCanonical ==
  pc = "returned" => ret[1].header \in CanonicalLabels \cup {""}

(***************************************************************************)
(* normalizeExample of part_003 over example texts put together from a     *)
(* leading marker, quotation marks, a repeated title and a body.           *)
(***************************************************************************)
ExampleMarkers == {"", "- ", "~ ", "* ", "- - "}

ExampleTitlePrefixes == {"", "Titel ~ ", "titel - ", "Titel ~ Titel ~ "}

ExampleBodies == {"x", "x y "}

ExampleText(a) ==
  a.marker \o (IF a.quoted THEN "\"" ELSE "") \o a.prefix \o a.body
    \o (IF a.quoted THEN "\"" ELSE "")

InitNormalize ==
  /\ pc = "start"
  /\ arg \in [fn : {"normalizeExample"}, marker : ExampleMarkers, quoted : BOOLEAN,
              prefix : ExampleTitlePrefixes, body : ExampleBodies, title : {"Titel"}]
  /\ ret = <<>>
  /\ IdleRender

CallNormalizeExample ==
  /\ pc = "start"
  /\ ret' = <<normalizeExample(ExampleText(arg), arg.title)>>
  /\ pc' = "returned"
  /\ UNCHANGED <<arg, renderVars>>

NextNormalize == CallNormalizeExample

SpecNormalize == InitNormalize /\ [][NextNormalize]_vars

\* Whether s begins with a bullet or dash marker and a blank
BeginsWithMarker(s) == Len(s) >= 2 /\ Ch(s, 1) \in {"-", "~", "*"} /\ IsWs(Ch(s, 2))

\* Whether s stands between quotation marks
IsQuoted(s) == Len(s) >= 2 /\ Ch(s, 1) = "\"" /\ Ch(s, Len(s)) = "\""

\* Whether s begins with the title and a dash, compared without case
BeginsWithTitle(s, title) ==
  /\ OccursAtI(s, 1, title)
  /\ Ch(s, SkipWs(s, 1 + Len(title))) \in {"-", "~"}

\* C23: what normalizeExample returns does not begin with a bullet or dash
\* marker, does not stand between quotation marks and does not begin with the
\* title of its item and a dash.
C23_ExampleNormalized ==
  pc = "returned" =>
    /\ ~BeginsWithMarker(ret[1])
    /\ ~IsQuoted(ret[1])
    /\ ~BeginsWithTitle(ret[1], arg.title)

(***************************************************************************)
(* The course of one render by renderGptContent, over sections of every    *)
(* branch, those whose text gives nothing to draw among them.              *)
(***************************************************************************)
SequencePool ==
  [heading : RoutingHeadings, text : RoutingTexts \cup {"", "Typische Ziele:"}]

InitSequence ==
  /\ pc = "idle"
  /\ gpt \in [title : {"", "Titel"}, sections : SeqsUpTo(SequencePool, MaxSections)]
  /\ doc = 0 /\ page = 0 /\ y = 0 /\ secIdx = 0 /\ log = <<>>
  /\ arg = <<>> /\ ret = <<>>

\* The control steps of renderGptContent: the first page and headline, one
\* pass of the section loop, the return.
RenderControlStep ==
  \/ pc = "idle" /\ pc' = "sections" /\ secIdx' = secIdx
  \/ pc = "sections" /\ secIdx < Len(gpt.sections)
       /\ pc' = pc /\ secIdx' = secIdx + 1
  \/ pc = "sections" /\ secIdx = Len(gpt.sections)
       /\ pc' = "done" /\ secIdx' = secIdx

\* renderGptContent is one synchronous function, a for-loop of synchronous
\* calls: whenever a control step is possible, the next one is taken.
SpecSequence ==
  InitSequence /\ [][NextRender]_vars /\ WF_<<pc, secIdx>>(RenderControlStep)

\* The drawTexts that are the headline, and those that are sub-headlines
Headlines == {k \in 1..Len(log) : log[k].font = "bold" /\ log[k].size = 28}

SubHeadlines == {k \in 1..Len(log) : log[k].font = "bold" /\ log[k].size = 18}

\* Idle: nothing drawn.  After it: the headline is the first drawText and the
\* only headline, and the sub-headlines drawn so far are the headings of the
\* sections rendered so far, in order.
SequenceState ==
  /\ pc = "idle" => log = <<>> /\ secIdx = 0
  /\ pc # "idle" =>
       /\ Headlines = {1}
       /\ log[1].text = (IF gpt.title # "" THEN gpt.title ELSE "Ergebnis")
       /\ Cardinality(SubHeadlines) = secIdx
       /\ \A k \in SubHeadlines :
            log[k].text
              = gpt.sections[Cardinality({j \in SubHeadlines : j <= k})].heading
  /\ pc = "done" => secIdx = Len(gpt.sections)

\* A step of the section loop draws the sub-headline of the next section
\* first and then its body after what was drawn before; the return draws
\* nothing.
SequenceStep ==
  /\ secIdx' # secIdx =>
       /\ pc = "sections" /\ pc' = "sections" /\ secIdx' = secIdx + 1
       /\ Len(log') > Len(log) /\ SubSeq(log', 1, Len(log)) = log
       /\ log'[Len(log) + 1].font = "bold" /\ log'[Len(log) + 1].size = 18
       /\ log'[Len(log) + 1].text = gpt.sections[secIdx'].heading
  /\ pc' # pc =>
       \/ pc = "idle" /\ pc' = "sections" /\ Len(log') = 1
       \/ pc = "sections" /\ pc' = "done" /\ log' = log

\* C24: every render goes Idle, headline, then per section in input order a
\* sub-headline followed by the section's body, then the return: one headline,
\* drawn first; nothing of a section drawn before its sub-headline; and the
\* render always reaches the return, also when a text gives no items.
C24_RenderSequence ==
  /\ []SequenceState
  /\ [][SequenceStep]_vars
  /\ <>(pc = "done")

\* A finished render whose last section is a trigger text without items:
\* its sub-headline is the last thing drawn.
C24_Witness ==
  /\ pc = "done"
  /\ Len(gpt.sections) = 2
  /\ gpt.sections[2].text = "Typische Ziele:"
  /\ log[Len(log)].size = 18
  /\ Cardinality(SubHeadlines) = 2

\* The drawTexts that are the headline of a "Vorteile deines Angebots" section
BenefitsHeadlines ==
  {k \in 1..Len(log) :
     /\ log[k].font = "bold" /\ log[k].size = SIZES.h2
     /\ log[k].text = "Vorteile deines Angebots"}

\* C25: in a render by the handler of part_003 the section "Vorteile deines
\* Angebots" begins at the top of the second page: its headline is the first
\* drawText of page 2, at y = A4.h - MARGIN, whatever was rendered before it.
C25_BenefitsOnPageTwo ==
  \A k \in BenefitsHeadlines :
    /\ log[k].page = 2
    /\ log[k].y = A4.h - MARGIN
    /\ k > 1 /\ log[k - 1].page < log[k].page

(***************************************************************************)
(* drawNumberedList of the first handler over lists long enough for a      *)
(* two-digit number.  The bold font is Helvetica-Bold, the font embedded   *)
(* when Poppins-SemiBold.ttf cannot be read; its advances are in           *)
(* thousandths of the font size.                                           *)
(***************************************************************************)
MaxListItems == 10     \* most items of a numbered list

HelveticaBold == [digit |-> 556, period |-> 278, space |-> 278]

\* The advance of the glyph c of a number prefix
PrefixAdvance(c) ==
  IF IsDigit(c) THEN HelveticaBold.digit
  ELSE IF c = "." THEN HelveticaBold.period
  ELSE HelveticaBold.space

\* fonts.bold.widthOfTextAtSize(prefix, size), in thousandths of a point
RECURSIVE PrefixWidth(_, _, _)
PrefixWidth(prefix, size, i) ==
  IF i > Len(prefix) THEN 0
  ELSE size * PrefixAdvance(Ch(prefix, i)) + PrefixWidth(prefix, size, i + 1)

\* "<label>:\n1. <item>\n2. <item>\n..." with n items
RECURSIVE NumberedText(_, _, _)
NumberedText(item, lo, hi) ==
  IF lo > hi THEN ""
  ELSE "\n" \o NatToStr(lo) \o ". " \o item \o NumberedText(item, lo + 1, hi)

ListSections ==
  { [heading |-> HeadingTrigger, text |-> label \o ":" \o NumberedText(item, 1, n)] :
      label \in {LabelAengste, LabelZiele, LabelVorurteile},
      item \in {"a", "M M M"}, n \in 1..MaxListItems }

ListTails ==
  { <<>>,
    <<[heading |-> "Dein Angebot", text |-> "a a"]>>,
    <<[heading |-> HeadingBenefits, text |-> "Typische Ziele :\n1. T\n- e\n2. U"]>> }

InitNumbered ==
  /\ pc = "idle"
  /\ gpt \in {[title |-> "Titel", sections |-> <<s>> \o t] : s \in ListSections, t \in ListTails}
  /\ doc = 0 /\ page = 0 /\ y = 0 /\ secIdx = 0 /\ log = <<>>
  /\ arg = <<>> /\ ret = <<>>

SpecNumbered == InitNumbered /\ [][NextRender]_vars

\* C26: the text of a numbered item starts at or to the right of the end of
\* its number prefix, which is drawn at the left margin: for every prefix
\* "<n>. " the drawText after it, the first line of the item, has
\* x >= MARGIN + the width of the prefix in the bold font.
C26_TextRightOfPrefix ==
  \A k \in 1..(Len(log) - 1) :
    IsNumberPrefix(k) =>
      /\ log[k].x = MARGIN
      /\ 1000 * log[k + 1].x >= 1000 * log[k].x + PrefixWidth(log[k].text, log[k].size, 1)

\* The drawTexts that are example lines of drawBullets: "~ <example>" in the
\* regular font at the bullet indent
IsExampleLine(k) ==
  /\ log[k].font = "regular" /\ log[k].x = MARGIN + 18
  /\ Len(log[k].text) >= 2 /\ Ch(log[k].text, 1) = "~" /\ Ch(log[k].text, 2) = " "

\* C27: every example line drawBullets draws, its marker and indent included,
\* ends at or before the right margin, x + width <= PAGE.width - MARGIN,
\* unless the example is one unsplittable token.
C27_ExampleLinesWrapped ==
  \A k \in 1..Len(log) :
    IsExampleLine(k) =>
      \/ log[k].x + widthOfTextAtSize(Regular, log[k].text, log[k].size)
           <= PAGE.width - MARGIN
      \/ IsSingleToken(From(log[k].text, 3))

(***************************************************************************)
(* The second handler over payloads that also hold a trigger section and a *)
(* benefits section whose text has no group header.                        *)
(***************************************************************************)
MaxGapSections == 2     \* most sections of a payload

GapSectionPool ==
  SecondSectionPool
    \cup { [heading |-> "Wichtige Trigger", text |-> ""],
           [heading |-> "Vorteile deines Angebots", text |-> "ohne Gruppen"] }

InitGaps ==
  /\ pc = "idle"
  /\ gpt \in [title : {"", "Titel"}, sections : SeqsUpTo(GapSectionPool, MaxGapSections)]
  /\ doc = 0 /\ page = 0 /\ y = 0 /\ secIdx = 0 /\ log = <<>>
  /\ arg = <<>> /\ ret = <<>>

SpecGaps == InitGaps /\ [][NextSecond]_vars

\* Where the cursor is after the last line of a section of groups: after the
\* list of the last group, or after the section headline when there is none.
TriggerContentEnd(groups) ==
  IF groups = <<>> THEN SecondSHL.y
  ELSE triggerGroups(SecondSHL, groups, 1, Len(groups)).y + GAP.betweenGroups

BenefitsContentEnd(groups) ==
  IF groups = <<>> THEN SecondSHL.y
  ELSE benefitsGroups(SecondSHL, groups, 1, Len(groups)).y + GAP.betweenGroups

\* C28: after a "Wichtige Trigger" section the cursor is GAP.afterTriggerBlock
\* below the end of the section's last line, and after a "Vorteile deines
\* Angebots" section GAP.afterParagraph below it, for every number of groups,
\* none included.
GapAfterGroupsStep ==
  pc = "sections" /\ secIdx' = secIdx + 1 =>
    /\ IsTriggerHeading(SecondHeading) =>
         y' = TriggerContentEnd(ret') - GAP.afterTriggerBlock
    /\ ~IsTriggerHeading(SecondHeading) /\ IsBenefitsHeading(SecondHeading) =>
         y' = BenefitsContentEnd(ret') - GAP.afterParagraph

C28_GapAfterGroups == [][GapAfterGroupsStep]_vars

(***************************************************************************)
(* The trigger branch of renderGptContent over texts whose labels come in  *)
(* every order, each label with one numbered line of its own.              *)
(***************************************************************************)
TriggerLabels == {LabelAengste, LabelZiele, LabelVorurteile}

\* The labels of a text in the order they are written, none twice
LabelOrders ==
  {o \in SeqsUpTo(TriggerLabels, 3) :
     o # <<>> /\ \A i, j \in 1..Len(o) : i # j => o[i] # o[j]}

\* The numbered line written under a label
ItemUnder(label) ==
  IF label = LabelAengste THEN "Angst" ELSE IF label = LabelZiele THEN "Ziel" ELSE "Vorurteil"

RECURSIVE LabelledText(_, _)
LabelledText(order, k) ==
  IF k > Len(order) THEN ""
  ELSE (IF k > 1 THEN "\n" ELSE "")
         \o order[k] \o ":\n1. " \o ItemUnder(order[k]) \o LabelledText(order, k + 1)

InitLabelOrder ==
  /\ pc = "idle"
  /\ arg \in [order : LabelOrders, tail : ListTails, title : {"", "Titel"}]
  /\ gpt = [title |-> arg.title,
            sections |-> <<[heading |-> HeadingTrigger,
                            text |-> LabelledText(arg.order, 1)]>> \o arg.tail]
  /\ doc = 0 /\ page = 0 /\ y = 0 /\ secIdx = 0 /\ log = <<>>
  /\ ret = <<>>

SpecLabelOrder == InitLabelOrder /\ [][NextRender]_vars

\* The drawTexts of the numbered line written under a label
DrawnItems(label) ==
  {k \in 1..Len(log) : log[k].font = "regular" /\ log[k].text = ItemUnder(label)}

\* C29: in the trigger branch every numbered line is drawn once, under the
\* label it is written under, in whatever order the labels are written; no
\* numbered line is drawn under two labels.
C29_ItemUnderOwnLabel ==
  pc = "sections" /\ secIdx = 1 =>
    \A i \in 1..Len(arg.order) :
      /\ Cardinality(DrawnItems(arg.order[i])) = 1
      /\ \A k \in DrawnItems(arg.order[i]) :
           /\ LastBoldBefore(k, {14}) # 0
           /\ log[LastBoldBefore(k, {14})].text = arg.order[i]

(***************************************************************************)
(* validatePayload of part_000 and the handler's answer to it.  A JSON     *)
(* value is a record with its kind; a string that is "" stands for an      *)
(* absent or empty property (both falsy).  An exception is the result      *)
(* [threw |-> TRUE].                                                       *)
(***************************************************************************)
MaxPayloadSections == 3    \* most entries of gpt.sections

PayloadTitles == {"", "ab", " a ", "Titel"}

\* What an entry of sections can be: null, a number, or an object
PayloadEntries ==
  {[kind |-> "null", heading |-> "", text |-> ""],
   [kind |-> "number", heading |-> "", text |-> ""]}
    \cup [kind : {"object"}, heading : {"", "ab", "Dein Angebot"}, text : {"", "Text lang"}]

\* What gpt can be: null, a string, or an object whose sections is absent,
\* a string or an array
PayloadValues ==
  {[kind |-> "null", title |-> "", sections |-> [kind |-> "undefined", entries |-> <<>>]],
   [kind |-> "string", title |-> "", sections |-> [kind |-> "undefined", entries |-> <<>>]]}
    \cup [kind : {"object"}, title : PayloadTitles,
          sections : {[kind |-> "undefined", entries |-> <<>>],
                      [kind |-> "string", entries |-> <<>>]}
                       \cup [kind : {"array"},
                             entries : SeqsUpTo(PayloadEntries, MaxPayloadSections)]]

\* !v || String(v).trim().length < 3
IsTooShort(v) == v = "" \/ Len(Trim(v)) < 3

\* Body of gpt.sections.forEach((s, i) => ...): reading s.heading of null
\* throws a TypeError, which ends the forEach.
validateEntry(st, s, i) ==
  LET NotObject(p) ==
        IF s.kind # "object" THEN Append(p, "sections[" \o NatToStr(i) \o "] ist kein Objekt.")
        ELSE p
      Heading(p) ==
        IF IsTooShort(s.heading)
        THEN Append(p, "sections[" \o NatToStr(i) \o "].heading fehlt/zu kurz.")
        ELSE p
      Text(p) ==
        IF IsTooShort(s.text)
        THEN Append(p, "sections[" \o NatToStr(i) \o "].text fehlt/zu kurz.")
        ELSE p
  IN  IF st.threw THEN st
      ELSE IF s.kind = "null" THEN [threw |-> TRUE, problems |-> NotObject(st.problems)]
      ELSE [threw |-> FALSE, problems |-> Text(Heading(NotObject(st.problems)))]

RECURSIVE validateEntries(_, _, _, _)
validateEntries(st, entries, lo, hi) ==
  IF lo > hi THEN st
  ELSE IF lo = hi THEN validateEntry(st, entries[lo], lo - 1)
  ELSE LET left == validateEntries(st, entries, lo, Mid(lo, hi))
       IN  IF left = left THEN validateEntries(left, entries, Mid(lo, hi) + 1, hi) ELSE st

validatePayload(payload) ==
  LET Result(st) == [threw |-> st.threw, valid |-> ~st.threw /\ st.problems = <<>>,
                     problems |-> st.problems]
      Title == IF IsTooShort(payload.title) THEN <<"title fehlt/zu kurz.">> ELSE <<>>
      Sections(p) ==
        IF payload.sections.kind # "array" \/ Len(payload.sections.entries) < MinSections
        THEN [threw |-> FALSE,
              problems |-> Append(p, "sections fehlt oder hat zu wenig Eintraege (>=3).")]
        ELSE validateEntries([threw |-> FALSE, problems |-> p], payload.sections.entries,
                             1, Len(payload.sections.entries))
  IN  IF payload.kind # "object"
      THEN [threw |-> FALSE, valid |-> FALSE,
            problems |-> <<"gpt fehlt oder ist kein Objekt.">>]
      ELSE Result(Sections(Title))

\* A POST request: body.gpt and the query flag debug
InitValidate ==
  /\ pc = "request"
  /\ arg \in [gpt : PayloadValues, debug : BOOLEAN]
  /\ ret = <<>>
  /\ IdleRender

\* const gpt = body.gpt || {}: a gpt that is null is replaced by {}
ReceivedGpt ==
  IF arg.gpt.kind = "null"
  THEN [kind |-> "object", title |-> "", sections |-> [kind |-> "undefined", entries |-> <<>>]]
  ELSE arg.gpt

\* const { valid, problems } = validatePayload(gpt)
HandlerValidate ==
  /\ pc = "request"
  /\ ret' = [validation |-> validatePayload(ReceivedGpt), status |-> 0, problems |-> <<>>]
  /\ pc' = "validated"
  /\ UNCHANGED <<arg, renderVars>>

\* if (debugMode) return res.status(valid ? 200 : 400).json({ valid, problems, received })
HandlerDebug ==
  /\ pc = "validated" /\ ~ret.validation.threw /\ arg.debug
  /\ ret' = [ret EXCEPT !.status = IF ret.validation.valid THEN 200 ELSE 400,
                        !.problems = ret.validation.problems]
  /\ pc' = "responded"
  /\ UNCHANGED <<arg, renderVars>>

\* if (!valid) return res.status(400).json({ error, problems })
HandlerInvalid ==
  /\ pc = "validated" /\ ~ret.validation.threw /\ ~arg.debug /\ ~ret.validation.valid
  /\ ret' = [ret EXCEPT !.status = 400, !.problems = ret.validation.problems]
  /\ pc' = "responded"
  /\ UNCHANGED <<arg, renderVars>>

\* The content PDF is created and its first page added.
HandlerRender ==
  /\ pc = "validated" /\ ~ret.validation.threw /\ ~arg.debug /\ ret.validation.valid
  /\ doc' = doc + 1 /\ page' = doc + 1
  /\ pc' = "rendering"
  /\ UNCHANGED <<arg, ret, gpt, y, secIdx, log>>

\* catch (err) { return res.status(500).json({ error, detail }) }
HandlerCatch ==
  /\ pc = "validated" /\ ret.validation.threw
  /\ ret' = [ret EXCEPT !.status = 500]
  /\ pc' = "responded"
  /\ UNCHANGED <<arg, renderVars>>

NextValidate ==
  \/ HandlerValidate
  \/ HandlerDebug
  \/ HandlerInvalid
  \/ HandlerRender
  \/ HandlerCatch

SpecValidate == InitValidate /\ [][NextValidate]_vars

\* Whether a payload is invalid: no object, a title that is missing or too
\* short, fewer than 3 sections, or a section that is no object or has a
\* heading or a text of fewer than 3 characters.
IsInvalidPayload(g) ==
  \/ g.kind # "object"
  \/ IsTooShort(g.title)
  \/ g.sections.kind # "array" \/ Len(g.sections.entries) < 3
  \/ \E i \in 1..Len(g.sections.entries) :
       \/ g.sections.entries[i].kind # "object"
       \/ IsTooShort(g.sections.entries[i].heading)
       \/ IsTooShort(g.sections.entries[i].text)

\* C30: validatePayload returns for every payload and never throws, valid is
\* true exactly when problems is empty, every invalid payload gets valid =
\* false, and the handler answers it with status 400 and the problems, never
\* with 500, and renders nothing.
C30_InvalidAnswered400 ==
  /\ pc # "request" =>
       /\ ~ret.validation.threw
       /\ ret.validation.valid <=> ret.validation.problems = <<>>
       /\ IsInvalidPayload(arg.gpt) => ~ret.validation.valid
  /\ pc \in {"responded", "rendering"} /\ IsInvalidPayload(arg.gpt) =>
       /\ pc = "responded" /\ ret.status = 400
       /\ ret.problems # <<>>
       /\ doc = 0

Spec == SpecRender

====
